---------------------------- MODULE Spec2Model ----------------------------
(***************************************************************************)
(* The three map generators of src/mapgen: DrunkWalk (drunkwalk.py),       *)
(* Voronoi (voronoi.py) and ChargeGen (cargegen.py), the animation queue   *)
(* of AsepriteSprite (aseprite_sprite.py) and the camera of PanZoomWindow  *)
(* (pan_zoom_window.py).  Each of them has                                 *)
(* its own variables and its own specification; the variables of the       *)
(* objects a specification does not run stay at their initial values.      *)
(* Positions are <<x, y>> with 0-based coordinates as in the source; a     *)
(* Python list is a sequence, so list[i] is seq[i + 1].                    *)
(***************************************************************************)
EXTENDS Integers, Sequences, FiniteSets, TLC

VARIABLES
    \* ---- DrunkWalk ----
    d_pc,                   \* position in DrunkWalk's code
    constructed,            \* TRUE once DrunkWalk.__init__ has returned
    walk_map,               \* self.walk_map: rows of tiles
    pos_x, pos_y,           \* the cursor of generate_floor
    can_walk,               \* generate_floor's can_walk
    max_steps,              \* generate_floor's max_steps
    intersection_allowance, \* generate_floor's intersection_allowance (hundredths)
    check_directions,       \* generate_floor's check_directions
    floor_access,           \* cells subscripted by the last generate_floor step
    \* ---- Voronoi ----
    v_pc,                   \* position in Voronoi.__init__
    map_size,               \* self.map_size = (width, height)
    number_of_seeds,        \* self.number_of_seeds
    map_data,               \* self.map_data: rows of area ids
    areas,                  \* self.areas: id -> Area
    open_positions,         \* init_seeds' open_positions: (seed_id, positions)
    new_checks,             \* init_seeds' new_checks
    new_positions,          \* init_seeds' new_positions
    entry,                  \* index of the loop of line 59 in open_positions
    pos_index,              \* index of the loop of line 63 in positions
    round,                  \* passes of the loop of line 57 begun so far
    claim_round,            \* per cell: the pass of this init_seeds that claimed it
    recalled,               \* init_map or init_seeds was called after __init__
    query,                  \* the query being answered and its answer
    \* ---- ChargeGen ----
    c_pc,                   \* position in ChargeGen.__init__
    area_size,              \* area_size = (width, height)
    number_of_positive_charges,
    number_of_negative_charges,
    cutoff_multiplier,      \* a float
    charge_strength,        \* self.charge_strength, a float
    charges,                \* self.charges: (x, y, sign)
    charge_map,             \* self.charge_map: rows of floats
    cutoff,                 \* self.cutoff, a float
    \* ---- AsepriteSprite ----
    a_pc,                   \* "run" once the sprite is constructed
    current_layer,          \* self.current_layer
    current_animation,      \* self.current_animation
    sheduled_animations,    \* self.sheduled_animations: (layer, animation)
    image,                  \* self.image: the key of the sequence shown
    nonlooping,             \* sequences whose last frame has no duration
    \* ---- PanZoomWindow ----
    w_pc,                   \* "run" once the window is constructed
    width, height,          \* self.width, self.height
    left, right,            \* self.left, self.right (float)
    bottom, top,            \* self.bottom, self.top (float)
    zoom_level,             \* self.zoom_level (float)
    zoomed_width,           \* self.zoomed_width (float)
    zoomed_height,          \* self.zoomed_height (float)
    camera_ops              \* events handled and focus calls made so far

d_vars == <<d_pc, constructed, walk_map, pos_x, pos_y, can_walk, max_steps,
            intersection_allowance, check_directions, floor_access>>

v_vars == <<v_pc, map_size, number_of_seeds, map_data, areas, open_positions,
            new_checks, new_positions, entry, pos_index, round, claim_round,
            recalled, query>>

c_vars == <<c_pc, area_size, number_of_positive_charges,
            number_of_negative_charges, cutoff_multiplier, charge_strength,
            charges, charge_map, cutoff>>

a_vars == <<a_pc, current_layer, current_animation, sheduled_animations,
            image, nonlooping>>

w_vars == <<w_pc, width, height, left, right, bottom, top, zoom_level,
            zoomed_width, zoomed_height, camera_ops>>

vars == <<d_vars, v_vars, c_vars, a_vars, w_vars>>

\* What the steps of one generator leave alone: the other generators.
d_others == <<v_vars, c_vars, a_vars, w_vars>>
v_others == <<d_vars, c_vars, a_vars, w_vars>>
c_others == <<d_vars, v_vars, a_vars, w_vars>>
a_others == <<d_vars, v_vars, c_vars, w_vars>>
w_others == <<d_vars, v_vars, c_vars, a_vars>>

----------------------------------------------------------------------------
\* Bounds of the model
MaxCells == 8
MaxMapCells == 6
MaxSeeds == 3
MaxRecallCells == 2
MaxSteps == 2
MaxChargeCells == 4
MaxCharges == 2
MaxSheduled == 3
MaxCameraOps == 3

----------------------------------------------------------------------------
\* ---- DrunkWalk (src/mapgen/drunkwalk.py) ----

\* Probabilities are in hundredths: 0.75 is 75.
NO_INTERSECTION == 0
BASIC_INTERSECTION == 75
FULL_INTERSECTION == 100
UNLIMITED_STEPS == -1

TILE_EMPTY == 0
TILE_FLOOR == 1
TILE_WALL == 2

\* Values of intersection_allowance a caller passes.
Allowances == {NO_INTERSECTION, BASIC_INTERSECTION, FULL_INTERSECTION}

\* Results of self.rnd.random(), a float of [0, 1), in hundredths.
RandomDraws == {0, 75, 99}

\* Values of max_steps a caller passes.
StepBudgets == {UNLIMITED_STEPS} \cup (0 .. MaxSteps)

\* area_size = (width, height) given to the constructor: the grids of at
\* most MaxCells cells.
AreaSizes ==
    {s \in (1 .. MaxCells) \X (1 .. MaxCells) : s[1] * s[2] <= MaxCells}

\* The third direction is a diagonal.
possible_directions_diagonal == << <<-1, 0>>, <<1, 0>>, <<-1, -1>>, <<0, 1>> >>

possible_directions == << <<-1, 0>>, <<1, 0>>, <<0, -1>>, <<0, 1>> >>

\* A grid whose first cell is not TILE_EMPTY.
EmptyMapButFirst(size) ==
    [i \in 1 .. size[2] |-> [x \in 1 .. size[1] |->
        IF i = 1 /\ x = 1 THEN 1 ELSE 0]]

\* [TILE_EMPTY for x in range(area_size[0])] appended area_size[1] times.
EmptyMap(size) ==
    [i \in 1 .. size[2] |-> [x \in 1 .. size[1] |-> TILE_EMPTY]]

\* Python's list[i]: valid for -len <= i < len, negative i counts from the end.
PyIndexOk(i, n) == -n <= i /\ i < n
PyIndex(i, n) == IF i < 0 THEN i + n + 1 ELSE i + 1

\* Whether self.walk_map[y][x] raises IndexError.
SubscriptOk(m, x, y) ==
    /\ PyIndexOk(y, Len(m))
    /\ PyIndexOk(x, Len(m[PyIndex(y, Len(m))]))

\* self.walk_map[y][x]
TileAt(m, x, y) ==
    LET row == m[PyIndex(y, Len(m))] IN row[PyIndex(x, Len(row))]

\* self.walk_map[y][x] = tile
SetTile(m, x, y, tile) ==
    LET r == PyIndex(y, Len(m)) IN
    [m EXCEPT ![r] = [@ EXCEPT ![PyIndex(x, Len(m[r]))] = tile]]

\* Line 46 without its test of the left edge.
WalkOutOfBoundsNoLeft(m, x, y) ==
    \/ y < 0
    \/ y >= Len(m)
    \/ x >= Len(m[PyIndex(y, Len(m))])

\* The out-of-bounds test of the walk, line 46.
WalkOutOfBounds(m, x, y) ==
    \/ y < 0
    \/ y >= Len(m)
    \/ x < 0
    \/ x >= Len(m[PyIndex(y, Len(m))])

\* The direction drawn stays in check_directions.
RemoveAtKept(s, i) == s

\* check_directions.remove(test_direction)
RemoveAt(s, i) == SubSeq(s, 1, i - 1) \o SubSeq(s, i + 1, Len(s))

\* Lines 57-58, after the inner loop.
StepsAfterAttempt(ms) == IF ms # UNLIMITED_STEPS THEN ms - 1 ELSE ms

\* get_pos: the tile, or TILE_EMPTY out of bounds.
get_pos(m, x, y) ==
    IF y < 0 \/ y >= Len(m) \/ x < 0 \/ x >= Len(m[PyIndex(y, Len(m))])
    THEN TILE_EMPTY
    ELSE TileAt(m, x, y)

get_pos_inner(m, x, y) == get_pos(m, x, y) = TILE_FLOOR

\* Lines 82-84 with the four axis neighbours only.
HasFloorNeighbourAxis(m, x, y) ==
    \/ get_pos_inner(m, x-1, y) \/ get_pos_inner(m, x+1, y)
    \/ get_pos_inner(m, x, y-1) \/ get_pos_inner(m, x, y+1)

\* The condition of lines 82-84.
HasFloorNeighbour(m, x, y) ==
    \/ get_pos_inner(m, x-1, y) \/ get_pos_inner(m, x+1, y)
    \/ get_pos_inner(m, x, y-1) \/ get_pos_inner(m, x, y+1)
    \/ get_pos_inner(m, x-1, y-1) \/ get_pos_inner(m, x+1, y-1)
    \/ get_pos_inner(m, x-1, y-1) \/ get_pos_inner(m, x-1, y+1)
    \/ get_pos_inner(m, x-1, y+1) \/ get_pos_inner(m, x+1, y+1)
    \/ get_pos_inner(m, x+1, y-1) \/ get_pos_inner(m, x+1, y+1)

\* Line 81 without its test: every cell is a candidate.
WallCandidateAny(m, x, y) == TRUE

\* Line 81: the cell is a candidate for a wall.
WallCandidate(m, x, y) == get_pos(m, x, y) = 0

\* The body of the two loops of generate_walls for one cell, lines 81-86.
WallCell(m, x, y) ==
    IF WallCandidate(m, x, y) /\ HasFloorNeighbour(m, x, y)
    THEN SetTile(m, x, y, TILE_WALL)
    ELSE m

\* generate_walls from cell number k on (row by row, in place).
RECURSIVE WallsFrom(_, _)
WallsFrom(m, k) ==
    LET w == Len(m[1]) IN
    IF k >= Len(m) * w THEN m
    ELSE WallsFrom(WallCell(m, k % w, k \div w), k + 1)

\* DrunkWalk.__init__ up to line 23: the grid is allocated.
DrunkInit ==
    /\ d_pc = "init"
    /\ constructed = FALSE
    /\ \E size \in AreaSizes : walk_map = EmptyMap(size)
    /\ pos_x = -1
    /\ pos_y = -1
    /\ can_walk = FALSE
    /\ max_steps = 0
    /\ intersection_allowance = 0
    /\ check_directions = <<>>
    /\ floor_access = {}

\* The walk starts where the call before left the cursor.
StartXKept(m) == IF pos_x >= 0 THEN pos_x ELSE Len(m[1]) \div 2

\* The start of the walk, lines 31-32.
StartY(m) == Len(m) \div 2
StartX(m) == Len(m[PyIndex(StartY(m), Len(m))]) \div 2

\* A call of generate_floor, by the constructor (line 25) or by the caller
\* of a constructed instance: lines 30-33.
GenerateFloor(ms, ia) ==
    /\ UNCHANGED d_others
    /\ d_pc \in {"init", "idle"}
    /\ d_pc' = "loop"
    /\ can_walk' = TRUE
    /\ pos_y' = StartY(walk_map)
    /\ pos_x' = StartX(walk_map)
    /\ max_steps' = ms
    /\ intersection_allowance' = ia
    /\ check_directions' = <<>>
    /\ floor_access' = {}
    /\ UNCHANGED <<constructed, walk_map>>

\* Line 35 with max_steps >= 0 for max_steps > 0.
WalkConditionInclusive ==
    (max_steps = UNLIMITED_STEPS \/ max_steps >= 0) /\ can_walk

\* The loop condition of line 35.
WalkCondition == (max_steps = UNLIMITED_STEPS \/ max_steps > 0) /\ can_walk

\* Lines 35-37: the outer loop is entered for one more step attempt.
AttemptBegin ==
    /\ UNCHANGED d_others
    /\ d_pc = "loop"
    /\ WalkCondition
    /\ check_directions' = possible_directions
    /\ can_walk' = FALSE
    /\ d_pc' = "inner"
    /\ floor_access' = {}
    /\ UNCHANGED <<constructed, walk_map, pos_x, pos_y, max_steps,
                   intersection_allowance>>

\* Line 35 is false: generate_floor returns.  Its frame is gone, so its
\* locals are as before the call; pos_x and pos_y stay as the record of
\* where the call left the cursor.
GenerateFloorReturn ==
    /\ UNCHANGED d_others
    /\ d_pc = "loop"
    /\ ~WalkCondition
    /\ d_pc' = IF constructed THEN "idle" ELSE "walls"
    /\ floor_access' = {}
    /\ can_walk' = FALSE
    /\ max_steps' = 0
    /\ intersection_allowance' = 0
    /\ check_directions' = <<>>
    /\ UNCHANGED <<constructed, walk_map, pos_x, pos_y>>

\* The end of one pass of the inner loop that did not walk: the next
\* direction, or lines 57-58 when none is left.
NextDirection(rest) ==
    /\ check_directions' = rest
    /\ IF Len(rest) > 0
       THEN d_pc' = "inner" /\ max_steps' = max_steps
       ELSE d_pc' = "loop" /\ max_steps' = StepsAfterAttempt(max_steps)
    /\ UNCHANGED <<constructed, walk_map, pos_x, pos_y, can_walk,
                   intersection_allowance>>

\* Lines 51-55 and 57-58: the cursor walks to the target.
Walk(rest, dx, dy) ==
    /\ pos_x' = pos_x + dx
    /\ pos_y' = pos_y + dy
    /\ walk_map' = SetTile(walk_map, pos_x + dx, pos_y + dy, TILE_FLOOR)
    /\ can_walk' = TRUE
    /\ check_directions' = rest
    /\ max_steps' = StepsAfterAttempt(max_steps)
    /\ d_pc' = "loop"
    /\ UNCHANGED <<constructed, intersection_allowance>>

\* The roll of line 50 without its test of NO_INTERSECTION.
RollPassesUntested(allowance, roll) == roll <= allowance

\* The second operand of line 50: the intersection roll is ok.
RollPasses(allowance, roll) ==
    allowance # NO_INTERSECTION /\ roll <= allowance

\* One pass of the inner loop, lines 39-55: direction number i of
\* check_directions is drawn (rnd.choice) and roll is what rnd.random()
\* returns if line 50 calls it.
TryDirection(i, roll) ==
    /\ UNCHANGED d_others
    /\ d_pc = "inner"
    /\ i \in 1 .. Len(check_directions)
    /\ LET test_direction == check_directions[i]
           rest == RemoveAt(check_directions, i)
           tx == pos_x + test_direction[1]
           ty == pos_y + test_direction[2]
       IN  IF WalkOutOfBounds(walk_map, tx, ty)
           THEN /\ floor_access' = {}
                /\ NextDirection(rest)
           ELSE IF ~SubscriptOk(walk_map, tx, ty)
           THEN \* IndexError leaves generate_floor
                /\ floor_access' = {<<tx, ty>>}
                /\ d_pc' = "raised"
                /\ check_directions' = rest
                /\ UNCHANGED <<constructed, walk_map, pos_x, pos_y, can_walk,
                               max_steps, intersection_allowance>>
           ELSE /\ floor_access' = {<<tx, ty>>}
                /\ IF \/ TileAt(walk_map, tx, ty) = TILE_EMPTY
                      \/ RollPasses(intersection_allowance, roll)
                   THEN Walk(rest, test_direction[1], test_direction[2])
                   ELSE NextDirection(rest)

\* generate_walls, by the constructor (line 27) or by the caller.
GenerateWalls ==
    /\ UNCHANGED d_others
    /\ d_pc \in {"walls", "idle"}
    /\ walk_map' = WallsFrom(walk_map, 0)
    /\ d_pc' = "idle"
    /\ constructed' = TRUE
    /\ floor_access' = {}
    /\ UNCHANGED <<pos_x, pos_y, can_walk, max_steps, intersection_allowance,
                   check_directions>>



----------------------------------------------------------------------------
\* ---- Voronoi (src/mapgen/voronoi.py) ----

MAP_OUT_OF_BOUNDS == -1
MAP_EMPTY == 0

\* map_size = (width, height) given to the constructor: the maps of at most
\* MaxMapCells cells.
MapSizes ==
    {s \in (1 .. MaxMapCells) \X (1 .. MaxMapCells) : s[1] * s[2] <= MaxMapCells}

\* Area.__init__
Area(id, origin_position) ==
    [id |-> id, origin_position |-> origin_position,
     positions |-> <<>>, neighbours |-> <<>>]

\* init_map: map_size[1] rows of map_size[0] zeros.
ZeroMap(size) == [y \in 1 .. size[2] |-> [x \in 1 .. size[1] |-> 0]]

\* x in list
InList(x, list) == \E i \in 1 .. Len(list) : list[i] = x

\* self.map_data[position[1]][position[0]]
MapAt(m, position) == m[position[2] + 1][position[1] + 1]

\* The test of line 76: the neighbour is outside the map.
OutsideMap(size, tot_x, tot_y) ==
    tot_y < 0 \/ tot_y >= size[2] \/ tot_x < 0 \/ tot_x >= size[1]

\* range(-2, 3, 2): the offsets step over the touching cells.
ExpandRangeWide == <<-2, 0, 2>>

\* range(-1, 1): the last offset is left out.
ExpandRangeShort == <<-1, 0>>

\* range(-1, 2), as the offsets of lines 70 and 71
ExpandRange == <<-1, 0, 1>>

\* Lines 70-80 with the four corner offsets passed over.
RECURSIVE ExpandAxes(_, _, _, _)
ExpandAxes(np, size, position, k) ==
    LET n == Len(ExpandRange) IN
    IF k >= n * n THEN np
    ELSE LET y == ExpandRange[(k \div n) + 1]
             x == ExpandRange[(k % n) + 1]
             tot_x == x + position[1]
             tot_y == y + position[2]
         IN  IF \/ x # 0 /\ y # 0
                \/ OutsideMap(size, tot_x, tot_y)
                \/ InList(<<tot_x, tot_y>>, np)
             THEN ExpandAxes(np, size, position, k + 1)
             ELSE ExpandAxes(Append(np, <<tot_x, tot_y>>), size, position, k + 1)

\* Lines 70-80 from offset number k on: y is the outer loop, x the inner.
RECURSIVE Expand(_, _, _, _)
Expand(np, size, position, k) ==
    LET n == Len(ExpandRange) IN
    IF k >= n * n THEN np
    ELSE LET y == ExpandRange[(k \div n) + 1]
             x == ExpandRange[(k % n) + 1]
             tot_x == x + position[1]
             tot_y == y + position[2]
         IN  IF OutsideMap(size, tot_x, tot_y) \/ InList(<<tot_x, tot_y>>, np)
             THEN Expand(np, size, position, k + 1)
             ELSE Expand(Append(np, <<tot_x, tot_y>>), size, position, k + 1)

\* What line 68 appends to the area's positions.
MemberEntry(position) == <<position[2], position[1]>>

\* Line 83 without its test of the ids the list already holds.
NewNeighbourAgain(area, found) == found # area.id

\* Line 83 with the ids compared by their order.
NewNeighbourLower(area, found) ==
    ~InList(found, area.neighbours) /\ found < area.id

\* Line 83 with its comparison of the ids turned around.
NewNeighbourOwn(area, found) ==
    ~InList(found, area.neighbours) /\ found = area.id

\* Line 83: the id found at the position is a new neighbour of the area.
NewNeighbour(area, found) ==
    ~InList(found, area.neighbours) /\ found # area.id

\* No query is being answered.
NoQuery == [op |-> "none", arg |-> 0, raised |-> FALSE, value |-> 0]

\* Voronoi.__init__ up to line 50: init_map has run, no seed is drawn yet.
\* range(number_of_seeds) of line 51 is empty when number_of_seeds < 1.
VoronoiInit ==
    /\ map_size \in MapSizes
    /\ number_of_seeds \in -1 .. MaxSeeds
    /\ v_pc = IF number_of_seeds < 1 THEN "while" ELSE "seeds"
    /\ map_data = ZeroMap(map_size)
    /\ areas = <<>>
    /\ open_positions = <<>>
    /\ new_checks = <<>>
    /\ new_positions = <<>>
    /\ entry = 0
    /\ pos_index = 0
    /\ round = 0
    /\ claim_round = ZeroMap(map_size)
    /\ recalled = FALSE
    /\ query = NoQuery

\* One pass of the loop of lines 51-55; x and y are the two rnd.randint draws.
DrawSeed(x, y) ==
    /\ UNCHANGED v_others
    /\ v_pc = "seeds"
    /\ LET i == Len(open_positions)
           seed_position == <<x, y>>
       IN  /\ open_positions' = Append(open_positions, <<i + 1, <<seed_position>> >>)
           /\ areas' = Append(areas, Area(i + 1, seed_position))
           /\ v_pc' = IF i + 1 < number_of_seeds THEN "seeds" ELSE "while"
    /\ UNCHANGED <<map_size, number_of_seeds, map_data, new_checks,
                   new_positions, entry, pos_index, round, claim_round, recalled, query>>

\* Lines 57-61: a pass of the while loop begins with the first entry.
RoundBegin ==
    /\ UNCHANGED v_others
    /\ v_pc = "while"
    /\ Len(open_positions) > 0
    /\ new_checks' = <<>>
    /\ new_positions' = <<>>
    /\ entry' = 1
    /\ pos_index' = 1
    /\ round' = round + 1
    /\ v_pc' = "for"
    /\ UNCHANGED <<map_size, number_of_seeds, map_data, areas, open_positions,
                   claim_round, recalled, query>>

\* Line 57 is false: init_seeds returns and its local variables are gone.
GrowthEnd ==
    /\ UNCHANGED v_others
    /\ v_pc = "while"
    /\ Len(open_positions) = 0
    /\ v_pc' = "done"
    /\ new_checks' = <<>>
    /\ new_positions' = <<>>
    /\ entry' = 0
    /\ pos_index' = 0
    /\ UNCHANGED <<map_size, number_of_seeds, map_data, areas, open_positions,
                   round, claim_round, recalled, query>>

\* The entry is put in front of the entries already kept.
AddCheckFirst(checks, seed_id, np) == <<<<seed_id, np>>>> \o checks

\* Line 87: new_checks.append((seed_id, new_positions))
AddCheck(checks, seed_id, np) == Append(checks, <<seed_id, np>>)

\* The end of the body of line 63 for the position pos_index of the entry,
\* np being new_positions after it: the next position, or lines 86-87 and
\* the next entry (line 61), or line 89.
Advance(np) ==
    LET seed_id == open_positions[entry][1]
        positions == open_positions[entry][2]
        checks == IF Len(np) > 0 THEN AddCheck(new_checks, seed_id, np)
                  ELSE new_checks
    IN  IF pos_index < Len(positions)
        THEN /\ pos_index' = pos_index + 1
             /\ new_positions' = np
             /\ UNCHANGED <<entry, new_checks, open_positions, v_pc>>
        ELSE IF entry < Len(open_positions)
        THEN /\ entry' = entry + 1
             /\ pos_index' = 1
             /\ new_positions' = <<>>
             /\ new_checks' = checks
             /\ UNCHANGED <<open_positions, v_pc>>
        ELSE /\ open_positions' = checks
             /\ new_checks' = checks
             /\ new_positions' = np
             /\ v_pc' = "while"
             /\ UNCHANGED <<entry, pos_index>>

\* A seed takes its origin whatever the map holds there.
PositionFreeOrSeed(m, position) ==
    MapAt(m, position) = MAP_EMPTY \/ round = 1

\* The test of line 65: the map holds MAP_EMPTY at the position.
PositionFree(m, position) == MapAt(m, position) = MAP_EMPTY

\* The frontier grows around a position that another claim holds too.
FrontierAfterTakenExpand(np, size, position) == Expand(np, size, position, 0)

\* new_positions after lines 81-84: the else branch leaves it alone.
FrontierAfterTaken(np, size, position) == np

\* Lines 63-84 for one position of one entry.
ProcessPosition ==
    /\ UNCHANGED v_others
    /\ v_pc = "for"
    /\ LET seed_id == open_positions[entry][1]
           position == open_positions[entry][2][pos_index]
           found == MapAt(map_data, position)
       IN  IF PositionFree(map_data, position)
           THEN /\ map_data' = [map_data EXCEPT
                                  ![position[2] + 1][position[1] + 1] = seed_id]
                /\ claim_round' = [claim_round EXCEPT
                                  ![position[2] + 1][position[1] + 1] = round]
                /\ areas' = [areas EXCEPT ![seed_id].positions =
                                  Append(@, MemberEntry(position))]
                /\ Advance(Expand(new_positions, map_size, position, 0))
           ELSE /\ areas' = IF NewNeighbour(areas[seed_id], found)
                            THEN [areas EXCEPT ![seed_id].neighbours =
                                      Append(@, found)]
                            ELSE areas
                /\ map_data' = map_data
                /\ claim_round' = claim_round
                /\ Advance(FrontierAfterTaken(new_positions, map_size, position))
    /\ UNCHANGED <<map_size, number_of_seeds, round, recalled, query>>


\* Line 92 without its test of the left edge.
QueryOutOfBoundsNoLeft(position) ==
    \/ position[2] < 0 \/ position[2] >= map_size[2]
    \/ position[1] >= map_size[1]

\* The test of line 92
QueryOutOfBounds(position) ==
    \/ position[2] < 0 \/ position[2] >= map_size[2]
    \/ position[1] < 0 \/ position[1] >= map_size[1]

\* get_area_from_position; line 94 subscripts the lists as Python does.
get_area_from_position(position) ==
    IF QueryOutOfBounds(position)
    THEN MAP_OUT_OF_BOUNDS
    ELSE TileAt(map_data, position[1], position[2])

\* get_area: self.areas.get(area_id, Area(-1, (-1, -1)))
get_area(area_id) ==
    IF area_id \in DOMAIN areas THEN areas[area_id] ELSE Area(-1, <<-1, -1>>)

\* get_positions_from_area
get_positions_from_area(area_id) == get_area(area_id).positions

\* The positions a caller asks get_area_from_position about: the map and a
\* border of one cell around it.
AskedPositions == (-1 .. map_size[1]) \X (-1 .. map_size[2])

\* The ids a caller asks get_area and get_positions_from_area about: the
\* ids of the areas and some others.
AskedIds == -1 .. (IF number_of_seeds < 1 THEN 1 ELSE number_of_seeds + 1)

\* A call of init_map (lines 39-45) on the constructed Voronoi: map_data is
\* made anew, the areas are left as they are.
\* Calls of init_map and init_seeds after the construction are followed,
\* any number of them, on the maps of at most MaxRecallCells cells.
CallInitMap ==
    /\ UNCHANGED v_others
    /\ v_pc = "done"
    /\ map_data' = ZeroMap(map_size)
    /\ claim_round' = ZeroMap(map_size)
    /\ map_size[1] * map_size[2] <= MaxRecallCells
    /\ recalled' = TRUE
    /\ UNCHANGED <<v_pc, map_size, number_of_seeds, areas, open_positions,
                   new_checks, new_positions, entry, pos_index, round, query>>

\* A call of init_seeds on the constructed Voronoi, up to line 50: the
\* areas are dropped (line 48) and the seeds are drawn again; the map is
\* the one the instance has.
CallInitSeeds ==
    /\ UNCHANGED v_others
    /\ v_pc = "done"
    /\ areas' = <<>>
    /\ open_positions' = <<>>
    /\ new_checks' = <<>>
    /\ new_positions' = <<>>
    /\ entry' = 0
    /\ pos_index' = 0
    /\ round' = 0
    /\ map_size[1] * map_size[2] <= MaxRecallCells
    /\ recalled' = TRUE
    /\ v_pc' = IF number_of_seeds < 1 THEN "while" ELSE "seeds"
    /\ claim_round' = ZeroMap(map_size)
    /\ UNCHANGED <<map_size, number_of_seeds, map_data, query>>

\* A call of get_area_from_position on the constructed Voronoi; line 94
\* raises IndexError when a subscript is outside its list.
AskAreaFromPosition(position) ==
    /\ UNCHANGED v_others
    /\ v_pc = "done"
    /\ v_pc' = "answered"
    /\ query' =
          IF \/ QueryOutOfBounds(position)
             \/ SubscriptOk(map_data, position[1], position[2])
          THEN [op |-> "get_area_from_position", arg |-> position,
                raised |-> FALSE, value |-> get_area_from_position(position)]
          ELSE [op |-> "get_area_from_position", arg |-> position,
                raised |-> TRUE, value |-> 0]
    /\ UNCHANGED <<map_size, number_of_seeds, map_data, areas, open_positions,
                   new_checks, new_positions, entry, pos_index, round,
                   claim_round, recalled>>

\* A call of get_positions_from_area on the constructed Voronoi.
AskPositionsFromArea(area_id) ==
    /\ UNCHANGED v_others
    /\ v_pc = "done"
    /\ v_pc' = "answered"
    /\ query' = [op |-> "get_positions_from_area", arg |-> area_id,
                 raised |-> FALSE, value |-> get_positions_from_area(area_id)]
    /\ UNCHANGED <<map_size, number_of_seeds, map_data, areas, open_positions,
                   new_checks, new_positions, entry, pos_index, round,
                   claim_round, recalled>>

\* A call of get_area on the constructed Voronoi.
AskArea(area_id) ==
    /\ UNCHANGED v_others
    /\ v_pc = "done"
    /\ v_pc' = "answered"
    /\ query' = [op |-> "get_area", arg |-> area_id,
                 raised |-> FALSE, value |-> get_area(area_id)]
    /\ UNCHANGED <<map_size, number_of_seeds, map_data, areas, open_positions,
                   new_checks, new_positions, entry, pos_index, round,
                   claim_round, recalled>>

\* The caller has the answer of its query.
QueryReturn ==
    /\ UNCHANGED v_others
    /\ v_pc = "answered"
    /\ v_pc' = "done"
    /\ query' = NoQuery
    /\ UNCHANGED <<map_size, number_of_seeds, map_data, areas, open_positions,
                   new_checks, new_positions, entry, pos_index, round,
                   claim_round, recalled>>

----------------------------------------------------------------------------
\* ---- ChargeGen (src/mapgen/cargegen.py) ----

\* area_size given to the constructor: the grids of at most MaxChargeCells
\* cells.
ChargeAreaSizes ==
    {s \in (1 .. MaxChargeCells) \X (1 .. MaxChargeCells) :
        s[1] * s[2] <= MaxChargeCells}

\* ---- The floats of Python: binary64 arithmetic ----

\* A natural number of any size is the sequence of its digits in base
\* LimbBase, the lowest first, without zeros at the top; 0 is <<>>.
LimbBits == 15
LimbBase == 2 ^ LimbBits

\* The digits without the zeros at the top.
RECURSIVE BNorm(_)
BNorm(a) ==
    IF Len(a) > 0 /\ a[Len(a)] = 0 THEN BNorm(SubSeq(a, 1, Len(a) - 1)) ELSE a

\* Digit number i of a, 0 above its top.
Limb(a, i) == IF i <= Len(a) THEN a[i] ELSE 0

\* -1, 0 or 1 as a < b, a = b or a > b
BCmp(a, b) ==
    LET \* the same, looking from digit i down
        RECURSIVE From(_)
        From(i) ==
            IF i = 0 THEN 0
            ELSE IF a[i] < b[i] THEN -1
            ELSE IF a[i] > b[i] THEN 1
            ELSE From(i - 1)
    IN  IF Len(a) < Len(b) THEN -1
        ELSE IF Len(a) > Len(b) THEN 1
        ELSE From(Len(a))

\* a + b
BAdd(a, b) ==
    LET \* the digits from digit i on, with the carry c
        RECURSIVE From(_, _)
        From(i, c) ==
            IF i > Len(a) /\ i > Len(b)
            THEN IF c = 0 THEN <<>> ELSE <<c>>
            ELSE LET t == Limb(a, i) + Limb(b, i) + c
                 IN  <<t % LimbBase>> \o From(i + 1, t \div LimbBase)
    IN  From(1, 0)

\* a - b for a >= b
BSub(a, b) ==
    LET \* the digits from digit i on, with the borrow c
        RECURSIVE From(_, _)
        From(i, c) ==
            IF i > Len(a) THEN <<>>
            ELSE LET t == a[i] - Limb(b, i) - c
                 IN  IF t < 0 THEN <<t + LimbBase>> \o From(i + 1, 1)
                     ELSE <<t>> \o From(i + 1, 0)
    IN  BNorm(From(1, 0))

\* a * d for a digit d, from digit i on, with the carry c.
RECURSIVE BMulLimbFrom(_, _, _, _)
BMulLimbFrom(a, d, i, c) ==
    IF i > Len(a)
    THEN IF c = 0 THEN <<>> ELSE <<c>>
    ELSE LET t == a[i] * d + c
         IN  <<t % LimbBase>> \o BMulLimbFrom(a, d, i + 1, t \div LimbBase)

\* a * b
BMul(a, b) ==
    LET \* a times digit j of b and the digits above it
        RECURSIVE From(_)
        From(j) ==
            IF j > Len(b) THEN <<>>
            ELSE BAdd(BMulLimbFrom(a, b[j], 1, 0), <<0>> \o From(j + 1))
    IN  BNorm(From(1))

\* a * 2^k
BShl(a, k) ==
    IF a = <<>> \/ k = 0 THEN a
    ELSE [i \in 1 .. (k \div LimbBits) |-> 0]
             \o BMulLimbFrom(a, 2 ^ (k % LimbBits), 1, 0)

\* a \div d for a digit d > 0, from digit i down, with the remainder r.
RECURSIVE BDivLimbFrom(_, _, _, _)
BDivLimbFrom(a, d, i, r) ==
    IF i = 0 THEN <<>>
    ELSE LET t == r * LimbBase + a[i]
         IN  BDivLimbFrom(a, d, i - 1, t % d) \o <<t \div d>>

\* a \div 2^k
BShr(a, k) ==
    LET whole == k \div LimbBits
        rest == IF whole >= Len(a) THEN <<>> ELSE SubSeq(a, whole + 1, Len(a))
    IN  BNorm(BDivLimbFrom(rest, 2 ^ (k % LimbBits), Len(rest), 0))

\* Bit number i of a, the lowest being bit 0.
BBit(a, i) ==
    (Limb(a, (i \div LimbBits) + 1) \div (2 ^ (i % LimbBits))) % 2

\* The number of bits of a.
BBits(a) ==
    LET \* the number of bits of the digit d
        RECURSIVE LimbLength(_)
        LimbLength(d) == IF d = 0 THEN 0 ELSE 1 + LimbLength(d \div 2)
    IN  IF a = <<>> THEN 0
        ELSE LimbBits * (Len(a) - 1) + LimbLength(a[Len(a)])

\* The bits of a below bit k are all 0.
BLowZero(a, k) == BShl(BShr(a, k), k) = a

\* <<a \div b, a % b>> for b > 0; when b is one digit above zeros the
\* quotient comes from the division by that digit.
BDivMod(a, b) ==
    LET \* long division in base 2 for the n bits of a from bit i down; qr
        \* is <<quotient, remainder>> of the bits above them
        RECURSIVE Bits(_, _, _)
        Bits(i, n, qr) ==
            IF n = 0 THEN qr
            ELSE LET r2 == BAdd(BAdd(qr[2], qr[2]),
                                IF BBit(a, i) = 1 THEN <<1>> ELSE <<>>)
                     q2 == BAdd(qr[1], qr[1])
                 IN  IF BCmp(r2, b) >= 0
                     THEN Bits(i - 1, n - 1, <<BAdd(q2, <<1>>), BSub(r2, b)>>)
                     ELSE Bits(i - 1, n - 1, <<q2, r2>>)
        \* the same for digit j of a and the digits below it
        RECURSIVE Limbs(_, _)
        Limbs(j, qr) ==
            IF j = 0 THEN qr
            ELSE Limbs(j - 1, Bits(LimbBits * j - 1, LimbBits, qr))
        \* the number of zero digits at the low end of b
        RECURSIVE LowZeros(_)
        LowZeros(i) == IF b[i] # 0 THEN i - 1 ELSE LowZeros(i + 1)
        z == LowZeros(1)
    IN  IF Len(b) = z + 1
        THEN LET high == IF z >= Len(a) THEN <<>>
                         ELSE SubSeq(a, z + 1, Len(a))
                 q == BNorm(BDivLimbFrom(high, b[z + 1], Len(high), 0))
                 qb == IF q = <<>> THEN <<>>
                       ELSE [i \in 1 .. z |-> 0]
                                \o BMulLimbFrom(q, b[z + 1], 1, 0)
             IN  <<q, BSub(a, qb)>>
        ELSE Limbs(Len(a), <<<<>>, <<>>>>)

\* The largest s with s * s <= a
BSqrt(a) ==
    LET \* s with the n bits from bit i down tried from the top
        RECURSIVE Bits(_, _, _)
        Bits(s, i, n) ==
            IF n = 0 \/ i < 0 THEN s
            ELSE LET t == BAdd(s, BShl(<<1>>, i))
                 IN  IF BCmp(BMul(t, t), a) <= 0 THEN Bits(t, i - 1, n - 1)
                     ELSE Bits(s, i - 1, n - 1)
        \* the same for the bits from bit i down to bit 0, LimbBits bits
        \* at a time
        RECURSIVE From(_, _)
        From(s, i) ==
            IF i < 0 THEN s ELSE From(Bits(s, i, LimbBits), i - LimbBits)
    IN  From(<<>>, BBits(a) \div 2)

\* A float is a binary64 number [neg, m, e]: its value is m * 2^e, negated
\* when neg, where m is a natural number of MantissaBits bits, or 0 with
\* e = 0.  (The numbers of ChargeGen are far from the ends of the range of
\* the exponent; infinities, NaN and subnormal numbers do not come up.)
MantissaBits == 53

\* The float nearest to (n + f) * 2^e, negated when neg, where n is a
\* natural number and 0 <= f < 1, f > 0 exactly when sticky; a value in
\* the middle of two floats goes to the one with the even m.  n has
\* MantissaBits + 2 bits or more when sticky.
FRound(neg, n, e, sticky) ==
    LET len == BBits(n) IN
    IF len = 0 THEN [neg |-> neg, m |-> <<>>, e |-> 0]
    ELSE IF len <= MantissaBits
    THEN [neg |-> neg, m |-> BShl(n, MantissaBits - len),
          e |-> e - (MantissaBits - len)]
    ELSE LET k == len - MantissaBits
             q == BShr(n, k)
             half == BBit(n, k - 1) = 1
             rest == sticky \/ ~BLowZero(n, k - 1)
             up == half /\ (rest \/ BBit(q, 0) = 1)
             m == IF up THEN BAdd(q, <<1>>) ELSE q
         IN  IF BBits(m) > MantissaBits
             THEN [neg |-> neg, m |-> BShr(m, 1), e |-> e + k + 1]
             ELSE [neg |-> neg, m |-> m, e |-> e + k]

\* float(n) of an int n
Float(n) ==
    LET \* the digits of k >= 0
        RECURSIVE Digits(_)
        Digits(k) ==
            IF k = 0 THEN <<>> ELSE <<k % LimbBase>> \o Digits(k \div LimbBase)
    IN  FRound(n < 0, Digits(IF n < 0 THEN -n ELSE n), 0, FALSE)

\* a < b
FLess(a, b) ==
    LET \* -1, 0 or 1 as |a| < |b|, |a| = |b| or |a| > |b|
        abs == IF a.m = <<>> \/ b.m = <<>>
               THEN (IF a.m = <<>> THEN 0 ELSE 1) - (IF b.m = <<>> THEN 0 ELSE 1)
               ELSE IF a.e < b.e THEN -1
               ELSE IF a.e > b.e THEN 1
               ELSE BCmp(a.m, b.m)
    IN  IF a.m = <<>> /\ b.m = <<>> THEN FALSE
        ELSE IF a.neg # b.neg THEN a.neg
        ELSE IF a.neg THEN abs > 0
        ELSE abs < 0

\* a + b
FAdd(a, b) ==
    IF a.m = <<>> /\ b.m = <<>> THEN [a EXCEPT !.neg = a.neg /\ b.neg]
    ELSE IF a.m = <<>> THEN b
    ELSE IF b.m = <<>> THEN a
    ELSE IF a.e - b.e > MantissaBits + 2 THEN a
    ELSE IF b.e - a.e > MantissaBits + 2 THEN b
    ELSE LET e == IF a.e < b.e THEN a.e ELSE b.e
             x == BShl(a.m, a.e - e)
             y == BShl(b.m, b.e - e)
             c == BCmp(x, y)
         IN  IF a.neg = b.neg THEN FRound(a.neg, BAdd(x, y), e, FALSE)
             ELSE IF c = 0 THEN [neg |-> FALSE, m |-> <<>>, e |-> 0]
             ELSE IF c > 0 THEN FRound(a.neg, BSub(x, y), e, FALSE)
             ELSE FRound(b.neg, BSub(y, x), e, FALSE)

\* a - b
FSub(a, b) == FAdd(a, [b EXCEPT !.neg = ~b.neg])

\* a * b; the product by a power of 2 (by 1.0 and -1.0 at line 73) is b
\* with the exponent moved, the general rule giving the same.
FMul(a, b) ==
    IF a.m = <<>> \/ b.m = <<>>
    THEN [neg |-> a.neg # b.neg, m |-> <<>>, e |-> 0]
    ELSE IF a.m = BShl(<<1>>, MantissaBits - 1)
    THEN [neg |-> a.neg # b.neg, m |-> b.m, e |-> a.e + b.e + MantissaBits - 1]
    ELSE FRound(a.neg # b.neg, BMul(a.m, b.m), a.e + b.e, FALSE)

\* a / b for b # 0
FDiv(a, b) ==
    IF a.m = <<>> THEN [neg |-> a.neg # b.neg, m |-> <<>>, e |-> 0]
    ELSE LET qr == BDivMod(BShl(a.m, MantissaBits + 3), b.m)
         IN  FRound(a.neg # b.neg, qr[1], a.e - b.e - (MantissaBits + 3),
                    qr[2] # <<>>)

\* math.sqrt(a) for a >= 0
Sqrt(a) ==
    IF a.m = <<>> THEN a
    ELSE LET odd == a.e % 2 = 1
             n == BShl(a.m, MantissaBits + 3 + (IF odd THEN 1 ELSE 0))
             e == (IF odd THEN a.e - 1 ELSE a.e) - (MantissaBits + 3)
             s == BSqrt(n)
         IN  FRound(FALSE, s, e \div 2, BMul(s, s) # n)

\* ---- ChargeGen's computation ----

\* Values of cutoff_multiplier: 0, 1.0 (the default) and 1.15 (line 80).
CutoffMultipliers == {Float(0), Float(1), FDiv(Float(115), Float(100))}

\* math.sqrt of the ints whose root ChargeGen takes within the bounds, the
\* total number of charges and the squared distances of a point and a
\* charge, computed once.
Roots ==
    [n \in 0 .. (MaxChargeCells * MaxChargeCells + MaxCharges) |->
        Sqrt(Float(n))]

\* math.sqrt(n) of an int n >= 0
SqrtOfInt(n) == IF n \in DOMAIN Roots THEN Roots[n] ELSE Sqrt(Float(n))

\* Line 13: (area_size[0] + area_size[1]) / 2 / math.sqrt(total charges)
ChargeStrength(size, total) ==
    FDiv(FDiv(Float(size[1] + size[2]), Float(2)), SqrtOfInt(total))

\* strength / math.sqrt(n) for the values of charge_strength and the
\* squared distances within the bounds, computed once.
Shares ==
    [strength \in {ChargeStrength(size, total) :
                      size \in ChargeAreaSizes, total \in 1 .. MaxCharges},
     n \in DOMAIN Roots \ {0} |->
        FDiv(strength, Roots[n])]

\* Line 71: self.charge_strength / distance, the distance being
\* math.sqrt(squared) # 0
ChargeShare(strength, squared) ==
    IF <<strength, squared>> \in DOMAIN Shares THEN Shares[strength, squared]
    ELSE FDiv(strength, SqrtOfInt(squared))

\* random.randint(a, b): a <= N <= b
RandInt(a, b) == a .. b

\* Lines 64-73 for one charge: its signed part of the total at the point.
\* math.pow(distance_x, 2) + math.pow(distance_y, 2) is the float of an int.
ChargeAt(strength, charge, point) ==
    LET distance_x == point[1] - charge[1]
        distance_y == point[2] - charge[2]
        squared == distance_x * distance_x + distance_y * distance_y
        charge_percentage == IF squared # 0
                             THEN ChargeShare(strength, squared)
                             ELSE strength
    IN  FMul(Float(charge[3]), charge_percentage)

\* Lines 58-75, the charges cs taken in their order.
get_total_charge_of_point(strength, cs, point) ==
    LET \* total_charge after the first k charges
        RECURSIVE total_charge(_)
        total_charge(k) ==
            IF k = 0 THEN Float(0)
            ELSE FAdd(total_charge(k - 1), ChargeAt(strength, cs[k], point))
    IN  total_charge(Len(cs))

\* Lines 35-41.
Cutoff(m, size, multiplier) ==
    LET \* lines 35-38: self.cutoff after the first k cells, row by row
        RECURSIVE sum(_)
        sum(k) ==
            IF k = 0 THEN Float(0)
            ELSE FAdd(sum(k - 1),
                      m[((k - 1) \div size[1]) + 1][((k - 1) % size[1]) + 1])
    IN  FMul(FDiv(sum(size[1] * size[2]), Float(size[1] * size[2])),
             multiplier)

\* Lines 46-49 with the commented-out else branch: kept cells are set to 50.
CutCellHarmonize(value, limit) ==
    IF FLess(value, limit) THEN Float(0) ELSE Float(50)

\* Lines 46-47 for one cell; the 0 of line 47 is the float of value 0.
CutCell(value, limit) == IF FLess(value, limit) THEN Float(0) ELSE value

\* ChargeGen.__init__ up to line 16.
ChargeInit ==
    /\ c_pc = "charges"
    /\ area_size \in ChargeAreaSizes
    /\ number_of_positive_charges \in 0 .. MaxCharges
    /\ number_of_negative_charges \in 0 .. MaxCharges
    /\ number_of_positive_charges + number_of_negative_charges \in 1 .. MaxCharges
    /\ cutoff_multiplier \in CutoffMultipliers
    /\ charge_strength =
         ChargeStrength(area_size,
             number_of_positive_charges + number_of_negative_charges)
    /\ charges = <<>>
    /\ charge_map = <<>>
    /\ cutoff = Float(0)

\* One pass of the loop of lines 17-24; x and y are the two rnd.randint draws.
PlaceCharge(x, y) ==
    /\ UNCHANGED c_others
    /\ c_pc = "charges"
    /\ Len(charges) < number_of_positive_charges + number_of_negative_charges
    /\ LET i == Len(charges) IN
       charges' = Append(charges,
           <<x, y, IF i < number_of_positive_charges THEN 1 ELSE -1>>)
    /\ UNCHANGED <<c_pc, area_size, number_of_positive_charges,
                   number_of_negative_charges, cutoff_multiplier,
                   charge_strength, charge_map, cutoff>>

\* Lines 27-32: the total charge of every point.
ComputeMap ==
    /\ UNCHANGED c_others
    /\ c_pc = "charges"
    /\ Len(charges) = number_of_positive_charges + number_of_negative_charges
    /\ charge_map' =
         [y \in 1 .. area_size[2] |-> [x \in 1 .. area_size[1] |->
             get_total_charge_of_point(charge_strength, charges, <<x - 1, y - 1>>)]]
    /\ c_pc' = "cutoff"
    /\ UNCHANGED <<area_size, number_of_positive_charges,
                   number_of_negative_charges, cutoff_multiplier,
                   charge_strength, charges, cutoff>>

\* Lines 35-41: the cutoff from the average.
ComputeCutoff ==
    /\ UNCHANGED c_others
    /\ c_pc = "cutoff"
    /\ cutoff' = Cutoff(charge_map, area_size, cutoff_multiplier)
    /\ c_pc' = "cut"
    /\ UNCHANGED <<area_size, number_of_positive_charges,
                   number_of_negative_charges, cutoff_multiplier,
                   charge_strength, charges, charge_map>>

\* Lines 44-47: the map is cut off; the constructor returns.
CutoffMap ==
    /\ UNCHANGED c_others
    /\ c_pc = "cut"
    /\ charge_map' =
         [y \in 1 .. area_size[2] |-> [x \in 1 .. area_size[1] |->
             CutCell(charge_map[y][x], cutoff)]]
    /\ c_pc' = "done"
    /\ UNCHANGED <<area_size, number_of_positive_charges,
                   number_of_negative_charges, cutoff_multiplier,
                   charge_strength, charges, cutoff>>

----------------------------------------------------------------------------
\* ---- AsepriteSprite (src/aseprite_sprite.py) ----

\* Python's None, as an argument or a tuple member.
None == "None"

\* not v, for a name or None
Falsy(v) == v = None \/ v = ""

\* self.available_animations and self.available_layers after lines 71-132:
\* the frame tags and the layers of the sprite sheet.
available_animations == <<"idle", "derp">>
available_layers == <<"Layer", "Shadow">>

\* The members of a list.
Members(list) == {list[i] : i \in 1 .. Len(list)}

\* _get_animation_sequence_name
get_animation_sequence_name(layer_name, animation_name) ==
    layer_name \o "_" \o animation_name

\* The keys of self.animation_sequences, lines 91 and 127-129.
animation_sequences ==
    {get_animation_sequence_name(l, a) :
        l \in Members(available_layers), a \in Members(available_animations)}

\* The animation names a caller passes: the animations of the sprite and a
\* name the sprite has no sequence of.
AnimationNames == Members(available_animations) \cup {"walk"}

\* The layer names a caller passes.
LayerNames == Members(available_layers) \cup {None}

\* AsepriteSprite.__init__, lines 134-154, start_animation and start_layer
\* being None or names of the sprite.
SpriteInit ==
    /\ a_pc = "run"
    /\ \E start_layer \in LayerNames :
          current_layer = IF Falsy(start_layer) THEN available_layers[1]
                          ELSE start_layer
    /\ \E start_animation \in Members(available_animations) \cup {None} :
          current_animation = IF Falsy(start_animation)
                              THEN available_animations[1]
                              ELSE start_animation
    /\ sheduled_animations = <<>>
    /\ image = get_animation_sequence_name(current_layer, current_animation)
    /\ nonlooping \in SUBSET animation_sequences

\* set_animation, lines 250-272; line 268 raises KeyError for a key that
\* self.animation_sequences does not have.
set_animation(animation_name, layer_name, force_reset) ==
    LET layer == IF Falsy(layer_name) THEN current_layer ELSE layer_name
        animation == IF Falsy(animation_name) THEN current_animation
                     ELSE animation_name
        key == get_animation_sequence_name(layer, animation)
    IN  IF \/ force_reset
           \/ current_animation # animation
           \/ current_layer # layer
        THEN IF key \in animation_sequences
             THEN /\ image' = key
                  /\ current_animation' = animation
                  /\ current_layer' = layer
                  /\ a_pc' = "run"
             ELSE /\ a_pc' = "KeyError"
                  /\ UNCHANGED <<image, current_animation, current_layer>>
        ELSE UNCHANGED <<image, current_animation, current_layer, a_pc>>

\* A call of set_animation by the user of the sprite.
SetAnimation(animation_name, layer_name, force_reset) ==
    /\ UNCHANGED a_others
    /\ a_pc = "run"
    /\ set_animation(animation_name, layer_name, force_reset)
    /\ UNCHANGED <<sheduled_animations, nonlooping>>

\* shedule_animation, lines 212-222
SheduleAnimation(animation_name, layer_name) ==
    /\ UNCHANGED a_others
    /\ a_pc = "run"
    /\ Len(sheduled_animations) < MaxSheduled
    /\ IF Falsy(current_animation)
       THEN /\ set_animation(animation_name, layer_name, FALSE)
            /\ UNCHANGED sheduled_animations
       ELSE /\ sheduled_animations' =
                  Append(sheduled_animations, <<layer_name, animation_name>>)
            /\ UNCHANGED <<image, current_animation, current_layer, a_pc>>
    /\ UNCHANGED nonlooping

\* The last entry is taken.
PopLast(list) ==
    [entry |-> list[Len(list)], rest |-> SubSeq(list, 1, Len(list) - 1)]

\* list.pop(0): the entry taken and the list left.
PopFirst(list) == [entry |-> Head(list), rest |-> Tail(list)]

\* The event on_animation_end of the sprite, handled by
\* _load_next_animation, lines 224-245.
AnimationEnd ==
    /\ UNCHANGED a_others
    /\ a_pc = "run"
    /\ IF Len(sheduled_animations) > 0
       THEN LET popped == PopFirst(sheduled_animations)
                layer_name == IF Falsy(popped.entry[1]) THEN current_layer
                              ELSE popped.entry[1]
            IN  /\ sheduled_animations' = popped.rest
                /\ set_animation(popped.entry[2], layer_name, FALSE)
       ELSE /\ a_pc' = IF /\ ~Falsy(current_animation)
                          /\ get_animation_sequence_name(
                                 current_layer, current_animation)
                             \in nonlooping
                       THEN "NotImplementedError"
                       ELSE "run"
            /\ UNCHANGED <<image, current_animation, current_layer,
                           sheduled_animations>>
    /\ UNCHANGED nonlooping

----------------------------------------------------------------------------
\* ---- PanZoomWindow (src/pan_zoom_window.py) ----

\* The camera's numbers are ints and floats; an int is modelled as the
\* float of the same value, which the arithmetic of the camera cannot tell
\* from it.

\* zoom_in_factor=1.2 of line 40 and line 45
zoom_in_factor == FDiv(Float(12), Float(10))
zoom_out_factor == FDiv(Float(1), zoom_in_factor)

\* pyglet.window.mouse.LEFT and MIDDLE, as line 136 compares them.
MOUSE_LEFT == 1
MOUSE_MIDDLE == 2

\* (width, height) given to the constructor
WindowSizes == {<<8, 6>>, <<5, 3>>, <<800, 600>>}

\* Mouse positions of the scroll events, in pixels of the window.
MousePositions == {<<0, 0>>, <<width \div 2, height \div 2>>}

\* dy of a scroll event
ScrollSteps == {-1, 0, 1}

\* (dx, dy) of a drag event
DragDeltas == {<<-1, 0>>, <<1, 1>>, <<0, -2>>}

\* (x, y) given to focus
FocusPoints == {<<0, 0>>, <<3, -2>>}

\* PanZoomWindow.__init__, lines 40-54
WindowInit ==
    /\ w_pc = "run"
    /\ \E size \in WindowSizes : width = size[1] /\ height = size[2]
    /\ left = Float(0)
    /\ right = Float(width)
    /\ bottom = Float(0)
    /\ top = Float(height)
    /\ zoom_level = Float(1)
    /\ zoomed_width = Float(width)
    /\ zoomed_height = Float(height)
    /\ camera_ops = 0

\* The fields of the window that screen_pos_to_world_pos reads.
Window ==
    [width |-> width, height |-> height, left |-> left, bottom |-> bottom,
     zoomed_width |-> zoomed_width, zoomed_height |-> zoomed_height]

\* screen_pos_to_world_pos, lines 89-99, on the window self
ScreenToWorld(self, screen_x, screen_y) ==
    LET sx == FDiv(Float(screen_x), Float(self.width))
        sy == FDiv(Float(screen_y), Float(self.height))
        world_x == FAdd(self.left, FMul(sx, self.zoomed_width))
        world_y == FAdd(self.bottom, FMul(sy, self.zoomed_height))
    IN  <<world_x, world_y>>

\* screen_pos_to_world_pos of the window of the state
screen_pos_to_world_pos(screen_x, screen_y) ==
    ScreenToWorld(Window, screen_x, screen_y)

\* _drag_camera, lines 108-116
drag_camera(dx, dy) ==
    /\ left' = FSub(left, FMul(Float(dx), zoom_level))
    /\ right' = FSub(right, FMul(Float(dx), zoom_level))
    /\ bottom' = FSub(bottom, FMul(Float(dy), zoom_level))
    /\ top' = FSub(top, FMul(Float(dy), zoom_level))

\* Line 126: self.left = x - half_width
FocusLeft(x) == Float(x - width \div 2)

\* focus, lines 118-129
Focus(x, y) ==
    /\ UNCHANGED w_others
    /\ w_pc = "run"
    /\ camera_ops < MaxCameraOps
    /\ camera_ops' = camera_ops + 1
    /\ LET half_width == width \div 2
           half_height == height \div 2
       IN  /\ left' = FocusLeft(x)
           /\ right' = Float(x + half_width)
           /\ bottom' = Float(y - half_height)
           /\ top' = Float(y + half_height)
    /\ UNCHANGED <<w_pc, width, height, zoom_level, zoomed_width,
                   zoomed_height>>

\* on_mouse_drag, lines 131-137
OnMouseDrag(dx, dy, buttons) ==
    /\ UNCHANGED w_others
    /\ w_pc = "run"
    /\ camera_ops < MaxCameraOps
    /\ camera_ops' = camera_ops + 1
    /\ IF buttons = MOUSE_MIDDLE
       THEN drag_camera(dx, dy)
       ELSE UNCHANGED <<left, right, bottom, top>>
    /\ UNCHANGED <<w_pc, width, height, zoom_level, zoomed_width,
                   zoomed_height>>

\* on_mouse_scroll, lines 160-165, and _zoom_camera, lines 139-158; with
\* dy = 0 the factor is 1 and the camera is computed anew all the same.
OnMouseScroll(x, y, dy) ==
    /\ UNCHANGED w_others
    /\ w_pc = "run"
    /\ camera_ops < MaxCameraOps
    /\ camera_ops' = camera_ops + 1
    /\ LET f == IF dy > 0 THEN zoom_in_factor
                ELSE IF dy < 0 THEN zoom_out_factor ELSE Float(1)
           level == FMul(zoom_level, f)
           mouse_x == FDiv(Float(x), Float(width))
           mouse_y == FDiv(Float(y), Float(height))
           mouse_x_in_world == FAdd(left, FMul(mouse_x, zoomed_width))
           mouse_y_in_world == FAdd(bottom, FMul(mouse_y, zoomed_height))
           new_width == FMul(zoomed_width, f)
           new_height == FMul(zoomed_height, f)
       IN  IF FLess(FDiv(Float(2), Float(10)), level) /\ FLess(level, Float(5))
           THEN /\ zoom_level' = level
                /\ zoomed_width' = new_width
                /\ zoomed_height' = new_height
                /\ left' = FSub(mouse_x_in_world, FMul(mouse_x, new_width))
                /\ right' = FAdd(mouse_x_in_world,
                                 FMul(FSub(Float(1), mouse_x), new_width))
                /\ bottom' = FSub(mouse_y_in_world, FMul(mouse_y, new_height))
                /\ top' = FAdd(mouse_y_in_world,
                               FMul(FSub(Float(1), mouse_y), new_height))
           ELSE UNCHANGED <<zoom_level, zoomed_width, zoomed_height, left,
                            right, bottom, top>>
    /\ UNCHANGED <<w_pc, width, height>>

----------------------------------------------------------------------------
\* ---- Specifications ----

\* No DrunkWalk is constructed.
DrunkIdle ==
    /\ d_pc = "none"
    /\ constructed = FALSE
    /\ walk_map = <<>>
    /\ pos_x = -1
    /\ pos_y = -1
    /\ can_walk = FALSE
    /\ max_steps = 0
    /\ intersection_allowance = 0
    /\ check_directions = <<>>
    /\ floor_access = {}

\* No Voronoi is constructed.
VoronoiIdle ==
    /\ v_pc = "none"
    /\ map_size = <<0, 0>>
    /\ number_of_seeds = 0
    /\ map_data = <<>>
    /\ areas = <<>>
    /\ open_positions = <<>>
    /\ new_checks = <<>>
    /\ new_positions = <<>>
    /\ entry = 0
    /\ pos_index = 0
    /\ round = 0
    /\ claim_round = <<>>
    /\ recalled = FALSE
    /\ query = NoQuery

\* No ChargeGen is constructed.
ChargeIdle ==
    /\ c_pc = "none"
    /\ area_size = <<0, 0>>
    /\ number_of_positive_charges = 0
    /\ number_of_negative_charges = 0
    /\ cutoff_multiplier = Float(0)
    /\ charge_strength = Float(0)
    /\ charges = <<>>
    /\ charge_map = <<>>
    /\ cutoff = Float(0)

\* No AsepriteSprite is constructed.
SpriteIdle ==
    /\ a_pc = "none"
    /\ current_layer = None
    /\ current_animation = None
    /\ sheduled_animations = <<>>
    /\ image = None
    /\ nonlooping = {}

\* No PanZoomWindow is constructed.
WindowIdle ==
    /\ w_pc = "none"
    /\ width = 0
    /\ height = 0
    /\ left = Float(0)
    /\ right = Float(0)
    /\ bottom = Float(0)
    /\ top = Float(0)
    /\ zoom_level = Float(0)
    /\ zoomed_width = Float(0)
    /\ zoomed_height = Float(0)
    /\ camera_ops = 0

\* One DrunkWalk instance and its caller.
DrunkWalkInit ==
    DrunkInit /\ VoronoiIdle /\ ChargeIdle /\ SpriteIdle /\ WindowIdle
DrunkWalkNext ==
    \/ \E ms \in StepBudgets, ia \in Allowances : GenerateFloor(ms, ia)
    \/ AttemptBegin
    \/ GenerateFloorReturn
    \/ \E i \in 1 .. Len(possible_directions), roll \in RandomDraws :
          TryDirection(i, roll)
    \/ GenerateWalls
DrunkWalkSpec == DrunkWalkInit /\ [][DrunkWalkNext]_vars

\* One construction of a Voronoi.
VoronoiGenInit ==
    VoronoiInit /\ DrunkIdle /\ ChargeIdle /\ SpriteIdle /\ WindowIdle
VoronoiGenNext ==
    \/ \E x \in RandInt(0, map_size[1] - 1), y \in RandInt(0, map_size[2] - 1) :
          DrawSeed(x, y)
    \/ RoundBegin
    \/ GrowthEnd
    \/ ProcessPosition
    \/ CallInitMap
    \/ CallInitSeeds
    \/ \E position \in AskedPositions : AskAreaFromPosition(position)
    \/ \E area_id \in AskedIds : AskPositionsFromArea(area_id)
    \/ \E area_id \in AskedIds : AskArea(area_id)
    \/ QueryReturn
VoronoiSpec == VoronoiGenInit /\ [][VoronoiGenNext]_vars

\* One construction of a ChargeGen.
ChargeGenInit ==
    ChargeInit /\ DrunkIdle /\ VoronoiIdle /\ SpriteIdle /\ WindowIdle
ChargeGenNext ==
    \/ \E x \in RandInt(0, area_size[1]), y \in RandInt(0, area_size[2]) :
          PlaceCharge(x, y)
    \/ ComputeMap
    \/ ComputeCutoff
    \/ CutoffMap
ChargeGenSpec == ChargeGenInit /\ [][ChargeGenNext]_vars

\* One AsepriteSprite, its user and the animation-end events of pyglet.
SpriteGenInit ==
    SpriteInit /\ DrunkIdle /\ VoronoiIdle /\ ChargeIdle /\ WindowIdle
SpriteNext ==
    \/ \E animation_name \in AnimationNames \cup {None},
          layer_name \in LayerNames, force_reset \in BOOLEAN :
          SetAnimation(animation_name, layer_name, force_reset)
    \/ \E animation_name \in AnimationNames, layer_name \in LayerNames :
          SheduleAnimation(animation_name, layer_name)
    \/ AnimationEnd
SpriteSpec == SpriteGenInit /\ [][SpriteNext]_vars

\* One PanZoomWindow, the mouse events of pyglet and the calls of focus.
WindowGenInit ==
    WindowInit /\ DrunkIdle /\ VoronoiIdle /\ ChargeIdle /\ SpriteIdle
WindowNext ==
    \/ \E p \in FocusPoints : Focus(p[1], p[2])
    \/ \E d \in DragDeltas, buttons \in {MOUSE_LEFT, MOUSE_MIDDLE} :
          OnMouseDrag(d[1], d[2], buttons)
    \/ \E m \in MousePositions, dy \in ScrollSteps :
          OnMouseScroll(m[1], m[2], dy)
WindowSpec == WindowGenInit /\ [][WindowNext]_vars

\* A program that uses one of the objects.
Init ==
    \/ DrunkWalkInit \/ VoronoiGenInit \/ ChargeGenInit
    \/ SpriteGenInit \/ WindowGenInit
Next ==
    \/ DrunkWalkNext \/ VoronoiGenNext \/ ChargeGenNext
    \/ SpriteNext \/ WindowNext
Spec == Init /\ [][Next]_vars


\* A DrunkWalk whose calls run to their end: the interpreter keeps executing
\* the statements of a call of generate_floor that has begun.
DrunkWalkFairSpec ==
    /\ DrunkWalkInit
    /\ [][DrunkWalkNext]_vars
    /\ WF_vars(AttemptBegin)
    /\ WF_vars(GenerateFloorReturn)
    /\ WF_vars(\E i \in 1 .. Len(possible_directions), roll \in RandomDraws :
                  TryDirection(i, roll))

----------------------------------------------------------------------------
\* ---- Properties of Voronoi ----

\* The positions <<x, y>> of the map.
MapPositions == (0 .. map_size[1] - 1) \X (0 .. map_size[2] - 1)

\* The positions a query can be asked about, some of them outside the map.
QueryPositions ==
    LET n == IF map_size[1] > map_size[2] THEN map_size[1] ELSE map_size[2]
    IN  (-1 .. n) \X (-1 .. n)

\* The ids of the areas.
AreaIds == 1 .. number_of_seeds

\* Voronoi.__init__ has returned an instance, and neither init_map nor
\* init_seeds was called on it since: the instance is as constructed.
VoronoiConstructed == v_pc \in {"done", "answered"} /\ ~recalled

\* C1: after the construction of a Voronoi with number_of_seeds >= 1, every
\* cell of map_data holds an id of 1 .. number_of_seeds; none is left at 0.
C1_EveryCellClaimed ==
    (VoronoiConstructed /\ number_of_seeds >= 1) =>
        \A p \in MapPositions :
            /\ MapAt(map_data, p) \in AreaIds
            /\ MapAt(map_data, p) # MAP_EMPTY

\* A finished map of more than one row and column shared by two areas.
C1_Witness ==
    /\ v_pc = "done"
    /\ ~recalled
    /\ map_size[1] > 1
    /\ map_size[2] > 1
    /\ \E p, q \in MapPositions :
          MapAt(map_data, p) = 1 /\ MapAt(map_data, q) = 2

\* C2: after construction, (x, y) is in get_positions_from_area(id) exactly
\* when get_area_from_position((x, y)) = id, and no position is listed twice
\* in one list or in the lists of two areas, on non-square maps too.
C2_MembersAreTheClaimedCells ==
    VoronoiConstructed =>
        /\ \A id \in AreaIds : \A p \in QueryPositions :
              InList(p, get_positions_from_area(id))
                  <=> get_area_from_position(p) = id
        /\ \A id \in AreaIds :
              \A i, j \in 1 .. Len(get_positions_from_area(id)) :
                  get_positions_from_area(id)[i] = get_positions_from_area(id)[j]
                      => i = j
        /\ \A id, other \in AreaIds : \A p \in QueryPositions :
              (InList(p, get_positions_from_area(id))
                  /\ InList(p, get_positions_from_area(other))) => id = other

----------------------------------------------------------------------------
\* ---- Properties of DrunkWalk ----

GridWidth == Len(walk_map[1])
GridHeight == Len(walk_map)

\* The cells <<x, y>> of the grid.
GridCells == (0 .. GridWidth - 1) \X (0 .. GridHeight - 1)

\* The tile of a cell of the grid.
Tile(m, c) == m[c[2] + 1][c[1] + 1]

\* A call of generate_floor is running.
InGenerateFloor == d_pc \in {"loop", "inner"}

\* One of the 8 neighbours of the cell is in the grid and is FLOOR.
FloorAround(m, c) ==
    \E n \in GridCells :
        /\ n # c
        /\ n[1] - c[1] \in -1 .. 1
        /\ n[2] - c[2] \in -1 .. 1
        /\ Tile(m, n) = TILE_FLOOR

\* One of the 4 axis neighbours of the cell is in the grid and is FLOOR.
FloorBeside(m, c) ==
    \E n \in GridCells :
        /\ (n[1] - c[1]) * (n[1] - c[1]) + (n[2] - c[2]) * (n[2] - c[2]) = 1
        /\ Tile(m, n) = TILE_FLOOR

\* C3: during every call of generate_floor the cursor is inside
\* [0, width) x [0, height), and no cell outside the grid is read or written.
C3_CursorInsideGrid ==
    /\ d_pc # "raised"
    /\ floor_access \subseteq GridCells
    /\ InGenerateFloor => <<pos_x, pos_y>> \in GridCells

\* The walk has just stepped onto a cell of the left edge of a grid more
\* than one cell wide.
C3_Witness ==
    /\ d_pc = "loop"
    /\ GridWidth > 1
    /\ pos_x = 0
    /\ floor_access = {<<pos_x, pos_y>>}
    /\ Tile(walk_map, <<pos_x, pos_y>>) = TILE_FLOOR

\* C4: in any sequence of generate_floor and generate_walls calls a FLOOR
\* cell stays FLOOR; generate_floor writes only FLOOR, and generate_walls
\* writes only WALL and only into EMPTY cells.
C4_FloorStaysFloor ==
    [][\A c \in GridCells :
          /\ Tile(walk_map, c) = TILE_FLOOR => Tile(walk_map', c) = TILE_FLOOR
          /\ Tile(walk_map', c) # Tile(walk_map, c) =>
                \/ d_pc = "inner" /\ Tile(walk_map', c) = TILE_FLOOR
                \/ /\ d_pc \in {"walls", "idle"}
                   /\ d_pc' = "idle"
                   /\ Tile(walk_map, c) = TILE_EMPTY
                   /\ Tile(walk_map', c) = TILE_WALL]_vars

\* A constructed instance whose caller runs generate_floor over a grid that
\* holds FLOOR cells and WALL cells.
C4_Witness ==
    /\ constructed
    /\ InGenerateFloor
    /\ \E c, w \in GridCells :
          Tile(walk_map, c) = TILE_FLOOR /\ Tile(walk_map, w) = TILE_WALL

\* The step is a call of generate_walls.
WallsStep == d_pc \in {"walls", "idle"} /\ d_pc' = "idle"

\* C5 as claimed: after every generate_walls pass a cell is WALL if and only
\* if it was EMPTY before the pass and one of its 8 neighbours was FLOOR.
C5_WallIffEmptyBesideFloor ==
    [][WallsStep =>
          \A c \in GridCells :
              Tile(walk_map', c) = TILE_WALL <=>
                  (Tile(walk_map, c) = TILE_EMPTY /\ FloorAround(walk_map, c))]_vars

\* C5 as amended: after every generate_walls pass a cell is WALL if and only
\* if it was WALL before the pass, or it was EMPTY before the pass and one of
\* its 8 neighbours was FLOOR; no other cell changes.
C5_WallIffWallOrEmptyBesideFloor ==
    [][WallsStep =>
          \A c \in GridCells :
              /\ Tile(walk_map', c) = TILE_WALL <=>
                    \/ Tile(walk_map, c) = TILE_WALL
                    \/ Tile(walk_map, c) = TILE_EMPTY /\ FloorAround(walk_map, c)
              /\ Tile(walk_map', c) # TILE_WALL =>
                    Tile(walk_map', c) = Tile(walk_map, c)]_vars

\* After a pass, a WALL cell that touches FLOOR cells only diagonally.
C5_Witness ==
    /\ d_pc = "idle"
    /\ \E c \in GridCells :
          /\ Tile(walk_map, c) = TILE_WALL
          /\ FloorAround(walk_map, c)
          /\ ~FloorBeside(walk_map, c)

\* The step is a call of generate_floor.
FloorCallStep == d_pc \in {"init", "idle"} /\ d_pc' = "loop"

\* The cell the grid centre: row height // 2, column width // 2.
GridCentre == <<GridWidth \div 2, GridHeight \div 2>>

\* C6 as claimed: a call of generate_floor on a constructed instance starts
\* from the cell where the call before left the cursor.
C6_CursorPersists ==
    [][(FloorCallStep /\ constructed) =>
          (pos_x' = pos_x /\ pos_y' = pos_y)]_vars

\* C6 as amended: every call of generate_floor, the constructor's and each
\* later one, starts from the grid centre, wherever the call before left
\* the cursor.
C6_CursorRestartsAtCentre ==
    [][FloorCallStep => <<pos_x', pos_y'>> = GridCentre]_vars

\* A call on a constructed instance has just begun at the centre, which no
\* walk has entered, while walks before it made other cells FLOOR.
C6_Witness ==
    /\ constructed
    /\ d_pc = "loop"
    /\ can_walk
    /\ floor_access = {}
    /\ <<pos_x, pos_y>> = GridCentre
    /\ Tile(walk_map, GridCentre) # TILE_FLOOR
    /\ \E c \in GridCells : Tile(walk_map, c) = TILE_FLOOR

\* Every cell of the grid is EMPTY.
AllEmpty(m) == \A c \in GridCells : Tile(m, c) = TILE_EMPTY

\* C7 as claimed: when the constructor returns the grid is all EMPTY.
C7_EmptyAfterConstruction ==
    [][(~constructed /\ constructed') => AllEmpty(walk_map')]_vars

\* C7 as amended: the grid is all EMPTY when the constructor has allocated
\* it, before its own generate_floor call; cells change only in steps of
\* generate_floor and generate_walls, those of the constructor's own two
\* calls included, and a cell that changes becomes FLOOR or WALL.
C7_EmptyUntilConstructorWalks ==
    [][/\ d_pc = "init" => AllEmpty(walk_map)
       /\ walk_map' # walk_map =>
             /\ d_pc \in {"inner", "walls", "idle"}
             /\ \A c \in GridCells :
                   Tile(walk_map', c) # Tile(walk_map, c) =>
                       Tile(walk_map', c) \in {TILE_FLOOR, TILE_WALL}]_vars

\* Inside the constructor, between its generate_floor and its
\* generate_walls: the grid holds FLOOR cells already.
C7_Witness ==
    /\ ~constructed
    /\ d_pc = "walls"
    /\ \E c \in GridCells : Tile(walk_map, c) = TILE_FLOOR

\* C8: a call of generate_floor with max_steps = UNLIMITED_STEPS returns,
\* for every intersection_allowance and whatever the random draws are.
C8_UnlimitedWalkReturns ==
    (InGenerateFloor /\ max_steps = UNLIMITED_STEPS) ~> ~InGenerateFloor

----------------------------------------------------------------------------
\* ---- Properties of ChargeGen ----

ChargeWidth == area_size[1]
ChargeHeight == area_size[2]

\* The points <<x, y>> of the charge map.
ChargePoints == (0 .. ChargeWidth - 1) \X (0 .. ChargeHeight - 1)

\* The value of the charge map at a point.
ChargeValue(p) == charge_map[p[2] + 1][p[1] + 1]

\* The total charge of a point, before the cutoff.
RawTotal(p) == get_total_charge_of_point(charge_strength, charges, p)

\* The raw totals of all the points.
RawTotals == [p \in ChargePoints |-> RawTotal(p)]

\* The sum of the first k of the totals raw, row by row and each row from
\* x = 0 on, as the floats are added by lines 36-38.
RECURSIVE RawSumTo(_, _)
RawSumTo(raw, k) ==
    IF k = 0 THEN Float(0)
    ELSE FAdd(RawSumTo(raw, k - 1),
              raw[<<(k - 1) % ChargeWidth, (k - 1) \div ChargeWidth>>])

\* (mean of the totals raw over all cells) * cutoff_multiplier
MeanCutoff(raw) ==
    FMul(FDiv(RawSumTo(raw, ChargeWidth * ChargeHeight),
              Float(ChargeWidth * ChargeHeight)),
         cutoff_multiplier)

\* C9: every charge of ChargeGen lies inside the grid.
C9_ChargesInsideGrid ==
    \A i \in 1 .. Len(charges) :
        /\ 0 <= charges[i][1] /\ charges[i][1] < ChargeWidth
        /\ 0 <= charges[i][2] /\ charges[i][2] < ChargeHeight

\* C10: after construction every cell of charge_map is 0 if its raw total
\* was below the cutoff (mean of the raw totals times cutoff_multiplier),
\* and is its raw total otherwise.
C10_CutoffKeepsRawTotals ==
    c_pc = "done" =>
        LET raw == RawTotals
            mean == MeanCutoff(raw)
        IN  /\ cutoff = mean
            /\ \A p \in ChargePoints :
                  ChargeValue(p) = IF FLess(raw[p], mean) THEN Float(0)
                                   ELSE raw[p]

\* A finished map with a cell cut to 0 and a cell that keeps a raw total
\* above the cutoff, which is not 0.
C10_Witness ==
    /\ c_pc = "done"
    /\ cutoff.m # <<>>
    /\ \E p, q \in ChargePoints :
          /\ FLess(RawTotal(p), cutoff)
          /\ RawTotal(p) # Float(0)
          /\ ChargeValue(p) = Float(0)
          /\ FLess(cutoff, RawTotal(q))
          /\ ChargeValue(q) = RawTotal(q)

----------------------------------------------------------------------------
\* ---- Voronoi: construction with fewer than one seed, queries ----

\* C11: the construction of a Voronoi with number_of_seeds < 1 fails: it
\* never returns an instance, whose grid would be all unclaimed.
C11_NoInstanceWithoutSeeds ==
    VoronoiConstructed => number_of_seeds >= 1

\* C12: a query on a constructed Voronoi never fails and changes neither
\* the grid nor the registry; get_area_from_position answers -1, which is
\* not the unclaimed value 0, for every position outside the map,
\* get_positions_from_area answers the empty list for an unknown id, and
\* get_area answers an Area of id -1 and origin (-1, -1) for an unknown id.
C12_QueriesNeverFail ==
    [][(v_pc = "done" /\ v_pc' = "answered") =>
          /\ ~query'.raised
          /\ map_data' = map_data
          /\ areas' = areas
          /\ (query'.op = "get_area_from_position"
                  /\ query'.arg \notin MapPositions)
                => (query'.value = -1 /\ query'.value # MAP_EMPTY)
          /\ (query'.op = "get_positions_from_area"
                  /\ query'.arg \notin AreaIds)
                => query'.value = <<>>
          /\ (query'.op = "get_area" /\ query'.arg \notin AreaIds)
                => (query'.value.id = -1
                        /\ query'.value.origin_position = <<-1, -1>>)]_vars

\* get_area_from_position has answered for a position left of a map that
\* has claimed cells.
C12_Witness ==
    /\ v_pc = "answered"
    /\ number_of_seeds >= 1
    /\ query.op = "get_area_from_position"
    /\ query.arg[1] < 0
    /\ query.arg[2] \in 0 .. map_size[2] - 1
    /\ query.value = -1

----------------------------------------------------------------------------
\* ---- Voronoi: growth on given seeds ----

\* The owner of a cell of the map.
Owner(p) == MapAt(map_data, p)

\* The seed positions drawn for the areas, in the order of their ids.
Origins == [i \in DOMAIN areas |-> areas[i].origin_position]

\* C14: on a 4 x 1 map with the origin of area 1 at x = 0 and the origin of
\* area 2 at x = 3, the growth ends with the cells x = 0, 1 owned by area 1
\* and the cells x = 2, 3 owned by area 2, and each area has the other in
\* its neighbour list.
C14_FourByOneSplitsInHalves ==
    (VoronoiConstructed /\ map_size = <<4, 1>>
         /\ Origins = << <<0, 0>>, <<3, 0>> >>) =>
        /\ Owner(<<0, 0>>) = 1 /\ Owner(<<1, 0>>) = 1
        /\ Owner(<<2, 0>>) = 2 /\ Owner(<<3, 0>>) = 2
        /\ InList(2, areas[1].neighbours)
        /\ InList(1, areas[2].neighbours)

\* The construction on the 4 x 1 map with the origins at x = 0 and x = 3
\* has returned.
C14_Witness ==
    /\ v_pc = "done"
    /\ ~recalled
    /\ map_size = <<4, 1>>
    /\ number_of_seeds = 2
    /\ Origins = << <<0, 0>>, <<3, 0>> >>
    /\ round = 3

----------------------------------------------------------------------------
\* ---- DrunkWalk: the grid of one cell ----

\* A step attempt of generate_floor ends: line 57, or line 39 with no
\* direction left.
AttemptEnd == d_pc = "inner" /\ d_pc' = "loop"

\* C15: on a 1 x 1 grid a call of generate_floor with unlimited steps and
\* intersection allowance 0 ends with its first step attempt, which makes no
\* move and leaves can_walk false, and the single cell is EMPTY at every
\* moment, also after generate_walls.
C15_OneCellGridStaysEmpty ==
    [][(d_pc # "none" /\ GridWidth = 1 /\ GridHeight = 1) =>
          /\ AllEmpty(walk_map')
          /\ (AttemptEnd /\ max_steps = UNLIMITED_STEPS
                  /\ intersection_allowance = NO_INTERSECTION)
                => /\ ~can_walk'
                   /\ pos_x' = pos_x /\ pos_y' = pos_y
                   /\ ~WalkCondition']_vars

\* On the constructed 1 x 1 grid, whose constructor ran generate_walls, the
\* only step attempt of an unlimited call with allowance 0 has ended.
C15_Witness ==
    /\ d_pc = "loop"
    /\ constructed
    /\ walk_map = <<<<TILE_EMPTY>>>>
    /\ max_steps = UNLIMITED_STEPS
    /\ intersection_allowance = NO_INTERSECTION
    /\ ~can_walk
    /\ pos_x = 0 /\ pos_y = 0

\* The area has the origin of an area of a lower id.
SharesOrigin(j) == \E i \in DOMAIN areas : i < j /\ Origins[i] = Origins[j]

\* The lowest id of the areas of the origin.
FirstAt(origin) ==
    CHOOSE i \in DOMAIN areas :
        /\ Origins[i] = origin
        /\ \A k \in DOMAIN areas : Origins[k] = origin => i <= k

\* C16: when seed draws give the same coordinates the construction ends
\* with the shared cell owned by the area of the lowest id among them and
\* with an empty member list for every other area of that origin, and every
\* cell of the map is claimed.
C16_SharedOriginToLowestId ==
    (VoronoiConstructed /\ \E j \in DOMAIN areas : SharesOrigin(j)) =>
        /\ \A j \in DOMAIN areas :
              SharesOrigin(j) =>
                  /\ Owner(Origins[j]) = FirstAt(Origins[j])
                  /\ areas[j].positions = <<>>
        /\ \A p \in MapPositions : Owner(p) \in AreaIds

\* A constructed map of three areas, two of them of the same origin, where
\* the first of the two has claimed more than the shared cell.
C16_Witness ==
    /\ v_pc = "done"
    /\ ~recalled
    /\ number_of_seeds = 3
    /\ \E i, j \in DOMAIN areas :
          /\ i < j
          /\ Origins[i] = Origins[j]
          /\ Len(areas[i].positions) > 1
          /\ areas[j].positions = <<>>
    /\ \E k \in DOMAIN areas : ~SharesOrigin(k) /\ k > 1

----------------------------------------------------------------------------
\* ---- AsepriteSprite: the queue of animations ----

\* C17: animations sheduled while an animation is current are played in the
\* order of their sheduling.  shedule_animation puts the entry behind the
\* entries already sheduled and leaves the current animation alone; an
\* animation-end event takes the oldest entry, leaves the others in their
\* order and, the entry being an animation of the sprite, makes it the
\* current animation, on the current layer when the entry has no layer.
C17_SheduledPlayInOrder ==
    [][/\ Len(sheduled_animations') > Len(sheduled_animations) =>
            /\ ~Falsy(current_animation)
            /\ SubSeq(sheduled_animations', 1, Len(sheduled_animations))
                   = sheduled_animations
            /\ Len(sheduled_animations') = Len(sheduled_animations) + 1
            /\ current_animation' = current_animation
            /\ current_layer' = current_layer
            /\ image' = image
       /\ Len(sheduled_animations') < Len(sheduled_animations) =>
            /\ sheduled_animations' = Tail(sheduled_animations)
            /\ Head(sheduled_animations)[2] \in Members(available_animations) =>
                  /\ current_animation' = Head(sheduled_animations)[2]
                  /\ current_layer' =
                        IF Head(sheduled_animations)[1] = None
                        THEN current_layer
                        ELSE Head(sheduled_animations)[1]
                  /\ image' = get_animation_sequence_name(current_layer',
                                                          current_animation')
                  /\ a_pc' = "run"]_vars

\* Two different entries wait, the older without a layer and the younger
\* with one, while an animation other than the first of the sprite plays on
\* a layer other than the first.
C17_Witness ==
    /\ a_pc = "run"
    /\ Len(sheduled_animations) >= 2
    /\ sheduled_animations[1][1] = None
    /\ sheduled_animations[2][1] # None
    /\ sheduled_animations[1][2] # sheduled_animations[2][2]
    /\ current_animation = available_animations[2]
    /\ current_layer = available_layers[2]
    /\ image = get_animation_sequence_name(current_layer, current_animation)

----------------------------------------------------------------------------
\* ---- PanZoomWindow: focus ----

\* C18: after focus(x, y) on a window of even width and height, whatever
\* zooms and drags came before, screen_pos_to_world_pos(width / 2,
\* height / 2) is (x, y).
C18_FocusCentresOnPoint ==
    [][\A p \in FocusPoints :
          (Focus(p[1], p[2]) /\ width % 2 = 0 /\ height % 2 = 0) =>
              ScreenToWorld(Window', width \div 2, height \div 2)
                  = <<Float(p[1]), Float(p[2])>>]_vars

----------------------------------------------------------------------------
\* ---- Voronoi: the order of the claims ----

\* The position is in the frontier of entry number e of this pass.
InFrontier(p, e) == InList(p, open_positions[e][2])

\* The pass in which the cell was claimed.
ClaimRound(p) == MapAt(claim_round, p)

\* C19: a cell is claimed in the first pass in which an area has it in its
\* frontier, by the area of the lowest id among the areas that have it in
\* their frontier in that pass, and a claimed cell never changes its owner.
\* Step by step, for the steps of init_seeds: a claimed cell keeps its
\* owner; a step that claims a cell claims it for the area being handled,
\* which has the cell in its frontier of this pass, while no area of a lower
\* id has; and when a pass ends every cell of a frontier of the pass is
\* claimed, in the construction in this pass or before.  (A call of
\* init_map is no step of the growth: it makes a new map.)
C19_FirstFrontierLowestId ==
    [][/\ \A p \in MapPositions :
             (Owner(p) # MAP_EMPTY /\ v_pc \in {"seeds", "while", "for"})
                 => MapAt(map_data', p) = Owner(p)
       /\ \A p \in MapPositions :
             (Owner(p) = MAP_EMPTY /\ MapAt(map_data', p) # MAP_EMPTY) =>
                 /\ v_pc = "for"
                 /\ MapAt(map_data', p) = open_positions[entry][1]
                 /\ InFrontier(p, entry)
                 /\ \A e \in 1 .. Len(open_positions) :
                       InFrontier(p, e) =>
                           open_positions[e][1] >= open_positions[entry][1]
                 /\ MapAt(claim_round', p) = round
       /\ (v_pc = "for" /\ v_pc' = "while") =>
             \A e \in 1 .. Len(open_positions) : \A p \in MapPositions :
                 InFrontier(p, e) =>
                     /\ MapAt(map_data', p) # MAP_EMPTY
                     /\ ~recalled => MapAt(claim_round', p) \in 1 .. round]_vars

\* In a pass after the first a cell is in the frontiers of two areas; the
\* area of the lower id has claimed it in this pass and the other area is
\* still to be handled.
C19_Witness ==
    /\ v_pc = "for"
    /\ round >= 2
    /\ \E p \in MapPositions : \E e \in 1 .. Len(open_positions) :
          /\ e < entry
          /\ InFrontier(p, e)
          /\ InFrontier(p, entry)
          /\ Owner(p) = open_positions[e][1]
          /\ ClaimRound(p) = round
          /\ open_positions[entry][1] > open_positions[e][1]
          /\ open_positions[entry][2][pos_index] = p

\* C20: the growth ends on every map.  An area is kept in open_positions
\* for the next pass only if it claimed a cell in the pass that ends, the
\* passes begun are never more than width * height + 1, and the loop is
\* left exactly when open_positions has no entry.
C20_GrowthTerminates ==
    [][/\ round' <= map_size[1] * map_size[2] + 1
       /\ (v_pc = "for" /\ v_pc' = "while") =>
             \A e \in 1 .. Len(open_positions') :
                 /\ Len(open_positions'[e][2]) > 0
                 /\ \E p \in MapPositions :
                       /\ MapAt(map_data', p) = open_positions'[e][1]
                       /\ MapAt(claim_round', p) = round
       /\ v_pc = "while" =>
             (v_pc' = "done" <=> Len(open_positions) = 0)]_vars

\* The growth has ended after width * height + 1 passes on a map of three
\* cells or more: every pass but the last claimed one cell.
C20_Witness ==
    /\ v_pc = "done"
    /\ map_size[1] * map_size[2] >= 3
    /\ round = map_size[1] * map_size[2] + 1
    /\ \A p \in MapPositions : Owner(p) # MAP_EMPTY

----------------------------------------------------------------------------
\* ---- DrunkWalk: the step attempt ----

\* The cursor.
Cursor == <<pos_x, pos_y>>

\* The cells in which two grids of the size of walk_map differ.
Changed(m, n) == {c \in GridCells : Tile(m, c) # Tile(n, c)}

\* C21: in one step attempt each of the four axis directions is examined at
\* most once, and the cursor moves to the first examined target that is in
\* the grid and is EMPTY or passes the roll (intersection_allowance > 0 and
\* the draw <= intersection_allowance); that target becomes FLOOR and no
\* other cell changes.  Step by step: an attempt begins with the four
\* directions; an examination takes its direction out of check_directions;
\* an accepted target gets the cursor, becomes FLOOR and ends the attempt;
\* a rejected one changes neither the cursor nor the grid.  The draw of an
\* examination is not kept in the state: the step is the one of some draw.
C21_FirstAcceptedTargetIsWalked ==
    [][/\ (d_pc = "loop" /\ d_pc' = "inner") =>
             check_directions' = << <<-1, 0>>, <<1, 0>>, <<0, -1>>, <<0, 1>> >>
       /\ d_pc = "inner" =>
             \E i \in 1 .. Len(check_directions) : \E roll \in RandomDraws :
                 LET d == check_directions[i]
                     target == <<pos_x + d[1], pos_y + d[2]>>
                     accepted ==
                         /\ target \in GridCells
                         /\ \/ Tile(walk_map, target) = TILE_EMPTY
                            \/ intersection_allowance > 0
                                   /\ roll <= intersection_allowance
                 IN  /\ check_directions' =
                            [j \in 1 .. Len(check_directions) - 1 |->
                                check_directions[IF j < i THEN j ELSE j + 1]]
                     /\ IF accepted
                        THEN /\ Cursor' = target
                             /\ Tile(walk_map', target) = TILE_FLOOR
                             /\ Changed(walk_map, walk_map') \subseteq {target}
                             /\ can_walk'
                             /\ d_pc' = "loop"
                        ELSE /\ Cursor' = Cursor
                             /\ walk_map' = walk_map
                             /\ ~can_walk'
                             /\ d_pc' = IF Len(check_directions') > 0
                                        THEN "inner" ELSE "loop"]_vars

\* An attempt has ended with a move onto a FLOOR cell away from the centre
\* after two or three of its directions were examined.
C21_Witness ==
    /\ d_pc = "loop"
    /\ can_walk
    /\ Len(check_directions) \in 1 .. 2
    /\ intersection_allowance = BASIC_INTERSECTION
    /\ Cursor # GridCentre
    /\ Tile(walk_map, Cursor) = TILE_FLOOR

\* C22: with a finite max_steps = n >= 0 a call of generate_floor makes at
\* most n step attempts, so at most n cells change to FLOOR, and with n = 0
\* the grid is unchanged.  Step by step, while a call of finite budget
\* runs: the budget left is never negative, an attempt begins only with
\* budget left and takes one from it when it ends, moved or not, at most
\* one cell changes in an attempt, to FLOOR, and none outside an attempt's
\* end; with no budget left the grid stays as it is and the call returns.
C22_BudgetBoundsAttempts ==
    [][(InGenerateFloor /\ max_steps # UNLIMITED_STEPS) =>
          /\ max_steps >= 0
          /\ (d_pc = "loop" /\ d_pc' = "inner") => max_steps > 0
          /\ AttemptEnd =>
                /\ max_steps' = max_steps - 1
                /\ Cardinality(Changed(walk_map, walk_map')) <= 1
                /\ \A c \in Changed(walk_map, walk_map') :
                      Tile(walk_map', c) = TILE_FLOOR
          /\ ~AttemptEnd =>
                /\ walk_map' = walk_map
                /\ InGenerateFloor' => max_steps' = max_steps
          /\ max_steps = 0 =>
                /\ walk_map' = walk_map
                /\ d_pc = "loop"
                /\ ~InGenerateFloor']_vars

\* The budget of a call is used up after a move, while the cursor could
\* still walk.
C22_Witness ==
    /\ d_pc = "loop"
    /\ max_steps = 0
    /\ can_walk
    /\ Len(check_directions) > 0
    /\ Cursor # GridCentre

\* The EMPTY cells of a grid.
EmptyCells(m) == {c \in GridCells : Tile(m, c) = TILE_EMPTY}

\* The two cells are beside each other on an axis.
Adjacent4(c, e) ==
    \/ c[1] = e[1] /\ (c[2] - e[2] = 1 \/ e[2] - c[2] = 1)
    \/ c[2] = e[2] /\ (c[1] - e[1] = 1 \/ e[1] - c[1] = 1)

\* C27: with intersection_allowance = NO_INTERSECTION generate_floor never
\* moves onto a cell that is not EMPTY, so a call makes at most as many
\* moves as there are EMPTY cells at its start and ends even with
\* UNLIMITED_STEPS.  Step by step, while such a call runs: a move goes to a
\* cell that is EMPTY, which leaves one EMPTY cell less; an attempt ends
\* with a move or with the loop condition of line 35 false; only a move
\* changes the grid.
C27_NoIntersectionWalksOnEmpty ==
    [][(InGenerateFloor /\ intersection_allowance = NO_INTERSECTION) =>
          /\ Cursor' # Cursor =>
                /\ Cursor' \in EmptyCells(walk_map)
                /\ Adjacent4(Cursor, Cursor')
                /\ EmptyCells(walk_map') = EmptyCells(walk_map) \ {Cursor'}
                /\ AttemptEnd
          /\ Cursor' = Cursor => walk_map' = walk_map
          /\ AttemptEnd => (Cursor' # Cursor \/ ~WalkCondition')]_vars

\* A call without intersections and with unlimited steps is stuck away
\* from the centre, beside a FLOOR cell: no cell beside the cursor is EMPTY
\* while EMPTY cells are left in the grid.
C27_Witness ==
    /\ d_pc = "loop"
    /\ intersection_allowance = NO_INTERSECTION
    /\ max_steps = UNLIMITED_STEPS
    /\ ~can_walk
    /\ Cursor # GridCentre
    /\ EmptyCells(walk_map) # {}
    /\ \E c \in GridCells : Adjacent4(c, Cursor) /\ Tile(walk_map, c) = TILE_FLOOR
    /\ \A c \in EmptyCells(walk_map) : ~Adjacent4(c, Cursor)

\* The cells reached from the cells of S by steps to FLOOR cells beside.
RECURSIVE FloorReach(_)
FloorReach(S) ==
    LET more == {c \in GridCells \ S :
                    /\ Tile(walk_map, c) = TILE_FLOOR
                    /\ \E e \in S : Adjacent4(c, e)}
    IN  IF more = {} THEN S ELSE FloorReach(S \cup more)

\* C28: on a DrunkWalk instance every FLOOR cell is joined to the centre
\* cell of the grid by a path of steps along the axes through cells that
\* are FLOOR or the centre cell, after any calls of generate_floor and
\* generate_walls and during them.
C28_FloorJoinedToCentre ==
    d_pc # "none" =>
        LET floor == {c \in GridCells : Tile(walk_map, c) = TILE_FLOOR}
        IN  floor \subseteq FloorReach({GridCentre})

\* After calls of both methods the centre cell is WALL, a cell that was
\* WALL is FLOOR, and a FLOOR cell is not beside the centre.
C28_Witness ==
    /\ d_pc = "idle"
    /\ Tile(walk_map, GridCentre) = TILE_WALL
    /\ \E c \in GridCells :
          /\ Tile(walk_map, c) = TILE_FLOOR
          /\ ~Adjacent4(c, GridCentre)
          /\ c[1] # GridCentre[1] /\ c[2] # GridCentre[2]

\* ---------------------------------------------------------------------
\* Voronoi: the neighbour lists during growth
\* ---------------------------------------------------------------------

\* The list holds no value twice.
NoRepeat(list) ==
    \A i, j \in 1 .. Len(list) : list[i] = list[j] => i = j

\* C23: in every state of the growth the neighbour list of an area holds
\* only ids of the other areas made by init_seeds (1 .. number_of_seeds),
\* never the area's own id and no id twice; a step leaves a list alone or
\* appends one id to it, and it appends only while the area of the entry
\* processes a position of its frontier that the map already gives to the
\* area of that id.  (Line 48 of a later call of init_seeds drops the
\* areas; the areas it makes begin with empty lists.)
C23_NeighboursAreOtherAreasAppended ==
    [][/\ \A id \in DOMAIN areas' :
              /\ Members(areas'[id].neighbours) \subseteq AreaIds \ {id}
              /\ NoRepeat(areas'[id].neighbours)
       /\ \A id \in DOMAIN areas \cap DOMAIN areas' :
              \/ areas'[id].neighbours = areas[id].neighbours
              \/ /\ v_pc = "for"
                 /\ id = open_positions[entry][1]
                 /\ LET position == open_positions[entry][2][pos_index]
                        found == MapAt(map_data, position)
                    IN  /\ found \in AreaIds \ {id}
                        /\ areas'[id].neighbours =
                               Append(areas[id].neighbours, found)
                        /\ map_data' = map_data]_vars

\* An area has recorded two neighbours, the one of the higher id first.
C23_Witness ==
    /\ v_pc = "for"
    /\ \E id \in DOMAIN areas :
           /\ Len(areas[id].neighbours) = 2
           /\ areas[id].neighbours[1] > areas[id].neighbours[2]

\* ---------------------------------------------------------------------
\* Voronoi: the shape of the areas after construction
\* ---------------------------------------------------------------------

\* The cells the map gives to the area id.
OwnedCells(id) == {p \in MapPositions : Owner(p) = id}

\* Two different cells that touch by a side or by a corner.
Adjacent8(p, q) ==
    /\ p # q
    /\ p[1] - q[1] \in -1 .. 1
    /\ p[2] - q[2] \in -1 .. 1

\* The cells of `cells` joined to a cell of S by steps between touching
\* cells of `cells`.
RECURSIVE Reach8(_, _)
Reach8(S, cells) ==
    LET more == {q \in cells \ S : \E p \in S : Adjacent8(p, q)}
    IN  IF more = {} THEN S ELSE Reach8(S \cup more, cells)

\* C24: after the construction the cells the map gives to an area are
\* joined to one another by steps between cells of the area that touch by
\* a side or a corner, and an area that has any cell has the cell of its
\* own origin.
C24_AreasConnectedAroundOrigin ==
    VoronoiConstructed =>
        \A id \in DOMAIN areas :
            OwnedCells(id) # {} =>
                /\ Owner(Origins[id]) = id
                /\ Reach8({Origins[id]}, OwnedCells(id)) = OwnedCells(id)

\* An area has cells in two rows and two columns, a second area has cells
\* too, and a third, which shares its origin with a lower id, has none.
C24_Witness ==
    /\ VoronoiConstructed
    /\ \E id \in DOMAIN areas :
           /\ \E p, q \in OwnedCells(id) : p[2] # q[2] /\ p[1] # q[1]
           /\ \E other \in DOMAIN areas : other # id /\ OwnedCells(other) # {}
    /\ \E id \in DOMAIN areas : SharesOrigin(id) /\ OwnedCells(id) = {}

\* ---------------------------------------------------------------------
\* Voronoi: the recorded neighbours after construction
\* ---------------------------------------------------------------------

\* C25: after the construction, when a cell of area A touches a cell of
\* another area B by a side or a corner, B is in A's neighbour list and A
\* is in B's.
C25_TouchingAreasRecordEachOther ==
    VoronoiConstructed =>
        \A a, b \in DOMAIN areas :
            (/\ a # b
             /\ \E p \in OwnedCells(a) : \E q \in OwnedCells(b) : Adjacent8(p, q))
            => /\ InList(b, areas[a].neighbours)
               /\ InList(a, areas[b].neighbours)

\* Three areas have cells and each touches the two others.
C25_Witness ==
    /\ VoronoiConstructed
    /\ Len(areas) = 3
    /\ \A a, b \in DOMAIN areas :
           a # b => \E p \in OwnedCells(a) : \E q \in OwnedCells(b) :
                        Adjacent8(p, q)

\* ---------------------------------------------------------------------
\* Voronoi: the areas and the distance to the origins
\* ---------------------------------------------------------------------

\* The larger of two numbers.
Larger(a, b) == IF a >= b THEN a ELSE b

\* The number of steps between touching cells from p to q.
Chebyshev(p, q) ==
    LET Abs(n) == IF n < 0 THEN -n ELSE n
    IN  Larger(Abs(p[1] - q[1]), Abs(p[2] - q[2]))

\* The least distance from p to an origin, when there is an origin.
OriginDistance(p) ==
    CHOOSE d \in {Chebyshev(p, Origins[i]) : i \in DOMAIN areas} :
        \A i \in DOMAIN areas : d <= Chebyshev(p, Origins[i])

\* C26: in the final grid of a Voronoi that has origins, every cell is of
\* an area whose origin is at the least Chebyshev distance d from the cell
\* among all the origins, and the cell was claimed in pass d + 1 of the
\* while loop, the passes counted from 1.
C26_CellsGoToNearestOriginInOrder ==
    (VoronoiConstructed /\ Len(areas) > 0) =>
        \A p \in MapPositions :
            /\ Owner(p) \in DOMAIN areas
            /\ Chebyshev(p, Origins[Owner(p)]) = OriginDistance(p)
            /\ ClaimRound(p) = OriginDistance(p) + 1

\* A final grid of three areas where a cell was claimed in the third pass
\* and another cell is as near to the origin of a second area as to the
\* origin of its own.
C26_Witness ==
    /\ VoronoiConstructed
    /\ Len(areas) = 3
    /\ \E p \in MapPositions : ClaimRound(p) = 3
    /\ \E p \in MapPositions : \E i \in DOMAIN areas :
           /\ i # Owner(p)
           /\ Origins[i] # Origins[Owner(p)]
           /\ Chebyshev(p, Origins[i]) = OriginDistance(p)

=============================================================================
